---- MODULE Spec2Model ----
(***************************************************************************)
(* A state-machine model of five parts of OpenGE:                          *)
(*                                                                         *)
(*   - ReadSorter (openge/src/algorithms/read_sorter.cpp): the external    *)
(*     merge sort that cuts the input into runs, sorts and spills each run *)
(*     to a temp file (inline, or as a job of the thread pool) and merges  *)
(*     the temp files through a std::multiset.                             *)
(*   - BamReaderPrivate (bamtools/src/api/internal/bam/BamReader_p.cpp):   *)
(*     the record reader and its prefetch thread.                          *)
(*   - LoadNextAlignmentInternal of the same file, over the bytes of one   *)
(*     record of the stream.                                               *)
(*   - the localrealign and dedup commands (openge/src/commands).          *)
(*   - FastqWriter (openge/src/util/fastq_writer.cpp).                     *)
(*                                                                         *)
(* SpecSort and SpecSortFault run the sorter, SpecReader, SpecReaderLive,  *)
(* SpecNextLive, SpecReopen and SpecRegion run the reader, SpecDecode runs *)
(* the record decoder, SpecCommand runs the commands and SpecFastq runs    *)
(* the FASTQ writer.  Every specification leaves the variables of the      *)
(* other parts untouched.                                                  *)
(***************************************************************************)
EXTENDS Integers, Sequences, FiniteSets

\* ------------------------------------------------------------------------
\* Bounds of the model
\* ------------------------------------------------------------------------

\* longest input stream given to the sorter
MaxInput == 3
\* largest alignments_per_tempfile (the buffer limit) tried
MaxBuf == 2

\* the key values the mapped first-mate input records draw from
QueryNames == {1, 2}
Positions == {0, 1}

\* longest file given to the reader in SpecReader
MaxFile == 3
\* most records next() is called for in one run of the reader
MaxResults == 4
\* most prefetch threads pthread_create starts in one run of the reader
MaxThreads == 1
\* most prefetch threads started in one run of SpecReopen
MaxReopenThreads == 2
\* longest file given to the reader in SpecReopen
MaxReopenFile == 1
\* most Seek()/Rewind() calls in one run of the reader
MaxSeeks == 1

\* most alignments given to one FastqWriter, and most Close() calls on it
MaxSaved == 4
MaxCloses == 2

\* the width of unsigned int, scaled down from 32 bits
UIntBits == 8

\* most input files given on a command line
MaxGiven == 2
\* the values OGEParallelismSettings::getNumberThreads() is tried with
ThreadCounts == {1, 2, 4, 30}

\* The prefetch thread's throttle, scaled down so that a file of MaxFile
\* records reaches it.  prefetch_start has: a check every 300 turns; under
\* high load a wait entered above 400 queued records and left at 100 or
\* fewer; otherwise a wait entered above 20000 and left at 5000 or fewer.
CheckPeriod == 2
HighLoadEnter == 1
HighLoadExit == 0
LowLoadEnter == 2
LowLoadExit == 1

VARIABLES
    \* ---- ReadSorter ----
    input,                    \* the records getInputAlignment() will hand out
    sort_order,               \* "SORT_NAME" or "SORT_POSITION"
    nothreads,                \* isNothreads()
    alignments_per_tempfile,  \* the buffer limit
    pc,                       \* where Run() stands
    read_count,               \* records obtained from getInputAlignment()
    buffer,                   \* GenerateSortedRuns' current buffer
    m_numberOfRuns,
    m_tempFilenames,
    thread_pool,              \* TempFileWriteJobs added and not yet finished
    tempFiles,                \* the temp directory: filename -> records
    readers,                  \* MergeSortedRuns' readers
    ctr,                      \* MergeSortedRuns' seeding loop counter
    reads,                    \* the multiset<SortedMergeElement>, in its order
    output,                   \* the records given to putOutputAlignment()
    retval,                   \* what Run() returned ("none" before it returns)
    writeFailed,              \* history: some WriteTempFile returned false
    completed,                \* history: filenames in the order their write ended
    \* ---- BamReaderPrivate ----
    file,                     \* the alignments of the BAM file, in file order
    multithreading,           \* BamParallelismSettings::isMultithreadingEnabled()
    m_stream,                 \* the BgzfStream: [open, pos]
    do_prefetch,
    prefetch_alignments,      \* the queue the prefetch thread fills
    prefetch_tell_fail,       \* the size of the queue of Tell() values (never popped)
    threads,                  \* the prefetch threads created so far
    m_region,                 \* the random access controller's region
    m_errorString,
    cpc,                      \* where the caller stands: "idle" or in "next"
    results,                  \* history: what the GetNextAlignment() calls returned
    refStream,                \* history: the stream of a reader that never prefetches
    refResults,               \* history: what that reader's calls would return
    history,                  \* history: "new" (never opened), "scan" (opened
                              \* once, then only read), "tell" (as "scan", with
                              \* Seek(Tell()) calls), "other"
    nseeks,                   \* history: Seek()/Rewind() calls made
    regionStart,              \* history: Len(results) when the region was set
    dropped,                  \* history: GetNextAlignment() has let go of a
                              \* BamAlignment object without deleting it
    seekAt,                   \* history: Len(results) at the last Seek() that
                              \* returned true, and its position
    rewindStart,              \* history: Len(results) at a Rewind() that returned
                              \* true and was the reader's last operation but
                              \* GetNextAlignment() calls since; else -1
    \* ---- the commands ----
    command,                  \* "localrealign" or "dedup" ("none": no command run)
    vm,                       \* vm.count() of the options: [reference,
                              \* intervals, nosplit]
    input_filenames,          \* how many input files were given
    cmd_nothreads,            \* the command's nothreads
    numberThreads,            \* OGEParallelismSettings::getNumberThreads()
    cmd_pc,                   \* where runCommand() stands
    duplicate_markers,        \* MarkDuplicates objects allocated and not deleted
    chainResult,              \* what runChain() returned ("none" before it ran)
    cmd_ret,                  \* what runCommand() returned ("none" before)
    pipeline,                 \* the modules runCommand() has connected: the
                              \* sinks of each, the sources of the merge, and
                              \* removeDuplicates of every MarkDuplicates
    \* ---- LoadNextAlignmentInternal over the bytes of the stream ----
    chunk,                    \* what m_stream holds at the file pointer
    dec_pc,                   \* where LoadNextAlignmentInternal stands
    SupportData,              \* BlockLength, QueryNameLength, NumCigarOperations
    dataLength,               \* BlockLength - BAM_CORE_SIZE, as unsigned int
    CigarData,                \* the CigarOps given to setCigarData
    dec_ret,                  \* what the call returned ("none" before)
    cerr,                     \* the messages written to cerr
    outside,                  \* history: a read outside allCharData or outside
                              \* BAM_CIGAR_LOOKUP has happened
    \* ---- FastqWriter ----
    open,
    fwd_stream,               \* which stream each pointer points to: "cout",
    rev_stream,               \* "fwd_file", "rev_file" or "orphan_file"
    orphan_stream,
    fwd_file,                 \* the three ofstreams: [isopen, bad, text]
    rev_file,
    orphan_file,
    cout,                     \* the entries written to cout
    potential_pairs,          \* name -> the fastq_record_t stored under it
    fq_pc,                    \* "constructed", "used", or "exited" by exit(-1)
    saved,                    \* history: the alignments given to SaveAlignment
    closes,                   \* history: the Close() calls that have returned
    savedAtClose              \* history: Len(saved) at the first Close()

sortVars == <<input, sort_order, nothreads, alignments_per_tempfile, pc,
              read_count, buffer, m_numberOfRuns, m_tempFilenames, thread_pool,
              tempFiles, readers, ctr, reads, output, retval,
              writeFailed, completed>>

readerVars == <<file, multithreading, m_stream, do_prefetch,
                prefetch_alignments, prefetch_tell_fail, threads, m_region,
                m_errorString, cpc, results, refStream, refResults, history,
                nseeks, regionStart, rewindStart, seekAt, dropped>>

commandVars == <<command, vm, input_filenames, cmd_nothreads, numberThreads,
                 cmd_pc, duplicate_markers, chainResult, cmd_ret, pipeline>>

decodeVars == <<chunk, dec_pc, SupportData, dataLength, CigarData, dec_ret,
                cerr, outside>>

fastqVars == <<open, fwd_stream, rev_stream, orphan_stream, fwd_file, rev_file,
               orphan_file, cout, potential_pairs, fq_pc, saved, closes,
               savedAtClose>>

vars == <<sortVars, readerVars, commandVars, decodeVars, fastqVars>>

\* ------------------------------------------------------------------------
\* Records and comparators
\* ------------------------------------------------------------------------

\* what distinguishes one record from another for the sort: mapped first
\* mates of every name and position, a second mate and an unmapped record
Attrs ==
    [name : QueryNames, first : {TRUE}, ref : {0}, pos : Positions]
    \cup {[name |-> 1, first |-> FALSE, ref |-> 0, pos |-> 0],
          [name |-> 1, first |-> TRUE, ref |-> -1, pos |-> 0]}

\* the i-th record of the input: id stands for the BamAlignment object
Rec(i, a) == [id |-> i, name |-> a.name, first |-> a.first,
              ref |-> a.ref, pos |-> a.pos]

\* no Seek() has returned true since the file was opened
NoSeek == [start |-> -1, pos |-> 0]

\* the random access controller without a region
NoRegion == [ref |-> -1, begin |-> 0, end |-> 0, hasAlignments |-> TRUE]

\* a NULL BamAlignment pointer
NULL == [id |-> 0, name |-> 0, first |-> FALSE, ref |-> 0, pos |-> 0]

\* Sort::ByPosition: (ref_id, position), ref_id -1 after every valid ref id
ByPosition(l, r) ==
    IF l.ref = r.ref THEN l.pos < r.pos
    ELSE IF l.ref = -1 THEN FALSE
    ELSE IF r.ref = -1 THEN TRUE
    ELSE l.ref < r.ref

\* Sort::ByName: query name, then the first-in-pair bit (first mate first)
ByName(l, r) ==
    IF l.name = r.name THEN l.first /\ ~r.first
    ELSE l.name < r.name

\* the comparator SortBuffer picks for a sort order
Cmp(order, l, r) ==
    IF order = "SORT_NAME" THEN ByName(l, r) ELSE ByPosition(l, r)

\* SortedMergeElement::operator< : always Sort::ByPosition
SortedMergeElement_less(l, r) == ByPosition(l.read, r.read)

\* s with x put behind the last element that x is not less than
RECURSIVE InsertStable(_, _, _)
InsertStable(order, s, x) ==
    IF s = <<>> THEN <<x>>
    ELSE IF Cmp(order, x, s[Len(s)])
         THEN Append(InsertStable(order, SubSeq(s, 1, Len(s) - 1), x), s[Len(s)])
         ELSE Append(s, x)

\* std::stable_sort
RECURSIVE stable_sort(_, _)
stable_sort(order, s) ==
    IF s = <<>> THEN <<>>
    ELSE InsertStable(order, stable_sort(order, SubSeq(s, 1, Len(s) - 1)), s[Len(s)])

\* ogeSortMt: the thread pool's merge sort, stable
ogeSortMt(order, s) == stable_sort(order, s)

\* ReadSorter::SortBuffer
SortBuffer(buf) ==
    IF nothreads THEN stable_sort(sort_order, buf) ELSE ogeSortMt(sort_order, buf)

\* std::multiset::insert: el goes to the upper bound of its equal range
RECURSIVE multiset_insert(_, _)
multiset_insert(s, el) ==
    IF s = <<>> THEN <<el>>
    ELSE IF SortedMergeElement_less(el, s[Len(s)])
         THEN Append(multiset_insert(SubSeq(s, 1, Len(s) - 1), el), s[Len(s)])
         ELSE Append(s, el)

\* ------------------------------------------------------------------------
\* ReadSorter: generating the sorted runs
\* ------------------------------------------------------------------------

\* the temp directory after filename was written with recs
FileWritten(filename, recs) ==
    [f \in DOMAIN tempFiles \cup {filename} |->
        IF f = filename THEN recs ELSE tempFiles[f]]

\* ReadSorter::WriteTempFile: ok is whether tempWriter.Open succeeded
WriteTempFile(buf, filename, ok) ==
    /\ tempFiles' = IF ok THEN FileWritten(filename, buf) ELSE tempFiles
    /\ writeFailed' = (writeFailed \/ ~ok)
    /\ completed' = Append(completed, filename)

\* ReadSorter::CreateSortedTempFile; its return value is dropped by every caller
CreateSortedTempFile(buf) ==
    /\ m_tempFilenames' = Append(m_tempFilenames, m_numberOfRuns)
    /\ m_numberOfRuns' = m_numberOfRuns + 1
    /\ IF nothreads
       THEN /\ \E ok \in BOOLEAN : WriteTempFile(SortBuffer(buf), m_numberOfRuns, ok)
            /\ UNCHANGED thread_pool
       ELSE /\ thread_pool' = thread_pool \cup
                    {[filename |-> m_numberOfRuns, buffer |-> buf]}
            /\ UNCHANGED <<tempFiles, writeFailed, completed>>

\* mutant: the record that found the buffer full is dropped
FreshBuffer_dropped(al) == <<>>

\* the fresh buffer started with the record that found the old one full
FreshBuffer(al) == <<al>>

\* mutant: the buffer counts as full one record late
bufferFull_late == Len(buffer) > alignments_per_tempfile

\* bufferFull = ( buffer->size() >= alignments_per_tempfile )
bufferFull == Len(buffer) >= alignments_per_tempfile

\* GenerateSortedRuns: one turn of the reading loop that gets a record
ReadInput ==
    /\ pc = "generate"
    /\ read_count < Len(input)
    /\ read_count' = read_count + 1
    /\ LET al == input[read_count + 1]
       IN IF ~bufferFull
          THEN /\ buffer' = Append(buffer, al)
               /\ UNCHANGED <<m_numberOfRuns, m_tempFilenames, thread_pool,
                              tempFiles, writeFailed, completed>>
          ELSE /\ CreateSortedTempFile(buffer)
               /\ buffer' = FreshBuffer(al)
    /\ UNCHANGED <<input, sort_order, nothreads, alignments_per_tempfile, pc,
                   readers, ctr, reads, output, retval>>
    /\ UNCHANGED <<readerVars, commandVars, decodeVars, fastqVars>>

\* GenerateSortedRuns: getInputAlignment() returned NULL; the leftover buffer
InputEnd ==
    /\ pc = "generate"
    /\ read_count = Len(input)
    /\ IF buffer # <<>>
       THEN CreateSortedTempFile(buffer)
       ELSE UNCHANGED <<m_numberOfRuns, m_tempFilenames, thread_pool,
                        tempFiles, writeFailed, completed>>
    /\ buffer' = <<>>
    /\ pc' = IF nothreads THEN "merge" ELSE "wait"
    /\ UNCHANGED <<input, sort_order, nothreads, alignments_per_tempfile,
                   read_count, readers, ctr, reads, output, retval>>
    /\ UNCHANGED <<readerVars, commandVars, decodeVars, fastqVars>>

\* mutant: the job names its file by the number of files already written
TempFileWriteJob_runJob_namedAtEnd(job) ==
    /\ job \in thread_pool
    /\ \E ok \in BOOLEAN : WriteTempFile(SortBuffer(job.buffer), Len(completed), ok)
    /\ thread_pool' = thread_pool \ {job}
    /\ UNCHANGED <<input, sort_order, nothreads, alignments_per_tempfile, pc,
                   read_count, buffer, m_numberOfRuns, m_tempFilenames, readers,
                   ctr, reads, output, retval>>
    /\ UNCHANGED <<readerVars, commandVars, decodeVars, fastqVars>>

\* TempFileWriteJob::runJob, run by a worker of the thread pool
TempFileWriteJob_runJob(job) ==
    /\ job \in thread_pool
    /\ \E ok \in BOOLEAN : WriteTempFile(SortBuffer(job.buffer), job.filename, ok)
    /\ thread_pool' = thread_pool \ {job}
    /\ UNCHANGED <<input, sort_order, nothreads, alignments_per_tempfile, pc,
                   read_count, buffer, m_numberOfRuns, m_tempFilenames, readers,
                   ctr, reads, output, retval>>
    /\ UNCHANGED <<readerVars, commandVars, decodeVars, fastqVars>>

\* mutant: GenerateSortedRuns returns without waiting for the jobs
WaitForJobCompletion_notWaiting ==
    /\ pc = "wait"
    /\ pc' = "merge"
    /\ UNCHANGED <<input, sort_order, nothreads, alignments_per_tempfile,
                   read_count, buffer, m_numberOfRuns, m_tempFilenames,
                   thread_pool, tempFiles, readers, ctr, reads, output, retval, writeFailed, completed>>
    /\ UNCHANGED <<readerVars, commandVars, decodeVars, fastqVars>>

\* GenerateSortedRuns: thread_pool->waitForJobCompletion()
WaitForJobCompletion ==
    /\ pc = "wait"
    /\ thread_pool = {}
    /\ pc' = "merge"
    /\ UNCHANGED <<input, sort_order, nothreads, alignments_per_tempfile,
                   read_count, buffer, m_numberOfRuns, m_tempFilenames,
                   thread_pool, tempFiles, readers, ctr, reads, output, retval, writeFailed, completed>>
    /\ UNCHANGED <<readerVars, commandVars, decodeVars, fastqVars>>

\* ------------------------------------------------------------------------
\* ReadSorter: merging the sorted runs
\* ------------------------------------------------------------------------

\* BamReader::GetNextAlignment on a temp file's reader: the record, or NULL
ReaderNext(rd) ==
    IF rd.next <= Len(tempFiles[rd.file]) THEN tempFiles[rd.file][rd.next] ELSE NULL

\* LoadNextAlignmentInternal of a run that decodes no bytes: never called
DecoderUnused ==
    /\ chunk = <<>>
    /\ dec_pc = "unused"
    /\ SupportData = <<>>
    /\ dataLength = 0
    /\ CigarData = <<>>
    /\ dec_ret = "none"
    /\ cerr = <<>>
    /\ outside = FALSE

\* an ofstream just constructed
NewStream == [isopen |-> FALSE, bad |-> FALSE, text |-> <<>>]

\* FastqWriter::FastqWriter: the three pointers at cout, open false
FastqConstructed ==
    /\ open = FALSE
    /\ fwd_stream = "cout"
    /\ rev_stream = "cout"
    /\ orphan_stream = "cout"
    /\ fwd_file = NewStream
    /\ rev_file = NewStream
    /\ orphan_file = NewStream
    /\ cout = <<>>
    /\ potential_pairs = {}
    /\ fq_pc = "constructed"
    /\ saved = <<>>
    /\ closes = 0
    /\ savedAtClose = -1

\* the FastqWriter of a run that writes no FASTQ
FastqUnused == FastqConstructed

\* MergeSortedRuns: one reader per temp file; exit(-1) if one does not open
MergeOpenReaders ==
    /\ pc = "merge"
    /\ IF \A i \in 1..Len(m_tempFilenames) : m_tempFilenames[i] \in DOMAIN tempFiles
       THEN /\ readers' = [i \in 1..Len(m_tempFilenames) |->
                               [file |-> m_tempFilenames[i], next |-> 1]]
            /\ pc' = "seed"
       ELSE /\ readers' = <<>>
            /\ pc' = "exited"
    /\ ctr' = 1
    /\ UNCHANGED <<input, sort_order, nothreads, alignments_per_tempfile,
                   read_count, buffer, m_numberOfRuns, m_tempFilenames,
                   thread_pool, tempFiles, reads, output, retval, writeFailed, completed>>
    /\ UNCHANGED <<readerVars, commandVars, decodeVars, fastqVars>>

\* MergeSortedRuns: the seeding loop, one reader per turn
MergeSeed ==
    /\ pc = "seed"
    /\ IF ctr <= Len(readers)
       THEN LET read == ReaderNext(readers[ctr])
            IN /\ readers' = [readers EXCEPT ![ctr].next = @ + 1]
               /\ reads' = IF read = NULL THEN reads
                           ELSE multiset_insert(reads, [read |-> read, source |-> ctr])
               /\ ctr' = ctr + 1
               /\ pc' = pc
       ELSE /\ pc' = "loop"
            /\ UNCHANGED <<readers, reads, ctr>>
    /\ UNCHANGED <<input, sort_order, nothreads, alignments_per_tempfile,
                   read_count, buffer, m_numberOfRuns, m_tempFilenames,
                   thread_pool, tempFiles, output,
                   retval, writeFailed, completed>>
    /\ UNCHANGED <<readerVars, commandVars, decodeVars, fastqVars>>

\* MergeSortedRuns: one turn of the steady-state loop
MergeStep ==
    /\ pc = "loop"
    /\ reads # <<>>
    /\ LET el == Head(reads)
           read == ReaderNext(readers[el.source])
       IN /\ output' = Append(output, el.read)
          /\ readers' = [readers EXCEPT ![el.source].next = @ + 1]
          /\ reads' = IF read = NULL THEN Tail(reads)
                      ELSE multiset_insert(Tail(reads),
                                           [read |-> read, source |-> el.source])
    /\ UNCHANGED <<input, sort_order, nothreads, alignments_per_tempfile, pc,
                   read_count, buffer, m_numberOfRuns, m_tempFilenames,
                   thread_pool, tempFiles, ctr,
                   retval, writeFailed, completed>>
    /\ UNCHANGED <<readerVars, commandVars, decodeVars, fastqVars>>

\* mutant: the first temp file is left in the temp directory
MergeCleanup_firstKept ==
    /\ pc = "loop"
    /\ reads = <<>>
    /\ tempFiles' = [f \in DOMAIN tempFiles \ {m_tempFilenames[i] :
                                  i \in 2..Len(m_tempFilenames)} |-> tempFiles[f]]
    /\ readers' = <<>>
    /\ pc' = "return"
    /\ UNCHANGED <<input, sort_order, nothreads, alignments_per_tempfile,
                   read_count, buffer, m_numberOfRuns, m_tempFilenames,
                   thread_pool, ctr, reads, output,
                   retval, writeFailed, completed>>
    /\ UNCHANGED <<readerVars, commandVars, decodeVars, fastqVars>>

\* MergeSortedRuns: the temp files are removed, the readers deleted
MergeCleanup ==
    /\ pc = "loop"
    /\ reads = <<>>
    /\ tempFiles' = [f \in DOMAIN tempFiles \ {m_tempFilenames[i] :
                                  i \in 1..Len(m_tempFilenames)} |-> tempFiles[f]]
    /\ readers' = <<>>
    /\ pc' = "return"
    /\ UNCHANGED <<input, sort_order, nothreads, alignments_per_tempfile,
                   read_count, buffer, m_numberOfRuns, m_tempFilenames,
                   thread_pool, ctr, reads, output,
                   retval, writeFailed, completed>>
    /\ UNCHANGED <<readerVars, commandVars, decodeVars, fastqVars>>

\* ReadSorter::Run: RunSort()'s result is dropped and sort_retval && merge_retval
\* is returned, two members that read_sorter.cpp never assigns
RunReturn ==
    /\ pc = "return"
    /\ \E sort_retval \in BOOLEAN, merge_retval \in BOOLEAN :
           retval' = (sort_retval /\ merge_retval)
    /\ pc' = "done"
    /\ UNCHANGED <<input, sort_order, nothreads, alignments_per_tempfile,
                   read_count, buffer, m_numberOfRuns, m_tempFilenames,
                   thread_pool, tempFiles, readers, ctr, reads, output, writeFailed, completed>>
    /\ UNCHANGED <<readerVars, commandVars, decodeVars, fastqVars>>

\* ------------------------------------------------------------------------
\* The sorter's specification
\* ------------------------------------------------------------------------

\* no module is connected to another
NoPipeline ==
    [readerSinks |-> <<>>, splitSinks |-> <<>>, markerSinks |-> <<>>,
     mergeSources |-> <<>>, mergeSinks |-> <<>>, removeDuplicates |-> <<>>]

\* no command is run
CommandUnused ==
    /\ command = "none"
    /\ pipeline = NoPipeline
    /\ vm = [reference |-> 0, intervals |-> 0, nosplit |-> 0, remove |-> 0]
    /\ input_filenames = 0
    /\ cmd_nothreads = FALSE
    /\ numberThreads = 1
    /\ cmd_pc = "unused"
    /\ duplicate_markers = 0
    /\ chainResult = "none"
    /\ cmd_ret = "none"

\* a reader just constructed: do_prefetch(false), nothing open
ReaderConstructed ==
    /\ m_stream = [open |-> FALSE, pos |-> 1]
    /\ do_prefetch = FALSE
    /\ prefetch_alignments = <<>>
    /\ prefetch_tell_fail = 0
    /\ threads = <<>>
    /\ m_region = NoRegion
    /\ m_errorString = ""
    /\ cpc = "idle"
    /\ results = <<>>
    /\ refStream = [open |-> FALSE, pos |-> 1]
    /\ refResults = <<>>
    /\ history = "new"
    /\ nseeks = 0
    /\ regionStart = 0
    /\ rewindStart = -1
    /\ seekAt = NoSeek
    /\ dropped = FALSE

\* the reader of a run that only sorts: constructed, never opened
ReaderUnused ==
    /\ file = <<>>
    /\ multithreading = FALSE
    /\ ReaderConstructed

Inputs == UNION {[1..n -> Attrs] : n \in 0..MaxInput}

InitSort ==
    /\ \E f \in Inputs : input = [i \in DOMAIN f |-> Rec(i, f[i])]
    /\ sort_order \in {"SORT_NAME", "SORT_POSITION"}
    /\ nothreads \in BOOLEAN
    /\ alignments_per_tempfile \in 1..MaxBuf
    /\ pc = "generate"
    /\ read_count = 0
    /\ buffer = <<>>
    /\ m_numberOfRuns = 0
    /\ m_tempFilenames = <<>>
    /\ thread_pool = {}
    /\ tempFiles = <<>>
    /\ readers = <<>>
    /\ ctr = 1
    /\ reads = <<>>
    /\ output = <<>>
    /\ retval = "none"
    /\ writeFailed = FALSE
    /\ completed = <<>>
    /\ ReaderUnused
    /\ CommandUnused
    /\ DecoderUnused
    /\ FastqUnused

NextSort ==
    \/ ReadInput
    \/ InputEnd
    \/ \E job \in thread_pool : TempFileWriteJob_runJob(job)
    \/ WaitForJobCompletion
    \/ MergeOpenReaders
    \/ MergeSeed
    \/ MergeStep
    \/ MergeCleanup
    \/ RunReturn

SpecSort == InitSort /\ [][NextSort]_vars

\* ------------------------------------------------------------------------
\* The sorter over a temp directory that loses data
\* ------------------------------------------------------------------------

\* A temp file is cut short after it was written and before the merge opens
\* it: the reader's LoadNextAlignmentInternal meets a short read at record
\* k + 1 and returns false, GetNextAlignment returns NULL from there on
TempFileTruncated ==
    /\ pc = "merge"
    /\ \E f \in DOMAIN tempFiles :
         \E k \in 0..(Len(tempFiles[f]) - 1) :
             tempFiles' = [tempFiles EXCEPT ![f] = SubSeq(@, 1, k)]
    /\ UNCHANGED <<input, sort_order, nothreads, alignments_per_tempfile, pc,
                   read_count, buffer, m_numberOfRuns, m_tempFilenames,
                   thread_pool, readers, ctr, reads, output, retval,
                   writeFailed, completed>>
    /\ UNCHANGED <<readerVars, commandVars, decodeVars, fastqVars>>

NextSortFault ==
    \/ ReadInput
    \/ InputEnd
    \/ \E job \in thread_pool : TempFileWriteJob_runJob(job)
    \/ WaitForJobCompletion
    \/ TempFileTruncated
    \/ MergeOpenReaders
    \/ MergeSeed
    \/ MergeStep
    \/ MergeCleanup
    \/ RunReturn

SpecSortFault == InitSort /\ [][NextSortFault]_vars

\* ------------------------------------------------------------------------
\* BamReaderPrivate: the stream and one alignment
\* ------------------------------------------------------------------------

\* a NULL BamAlignment pointer of the reader
NullAlignment == [id |-> 0, ref |-> 0, pos |-> 0, span |-> 0]

\* m_stream.Tell(): virtual offsets are counted in alignments, 1 is
\* m_alignmentsBeginOffset and Len(file) + 1 the end of the file
m_alignmentsBeginOffset == 1

\* BamReaderPrivate::LoadNextAlignmentInternal on stream st: the alignment
\* under the file pointer, or NULL when no block length can be read
LoadNextAlignmentInternal(st) ==
    IF st.open /\ st.pos <= Len(file) THEN file[st.pos] ELSE NullAlignment

\* the stream after LoadNextAlignmentInternal
StreamAfterLoad(st) ==
    IF st.open /\ st.pos <= Len(file) THEN [st EXCEPT !.pos = @ + 1] ELSE st

\* BamRandomAccessController::AlignmentState
AlignmentState(al) ==
    IF m_region = NoRegion THEN "OverlapsRegion"
    ELSE IF al.ref = -1 \/ al.ref > m_region.ref THEN "AfterRegion"
    ELSE IF al.ref < m_region.ref THEN "BeforeRegion"
    ELSE IF al.pos >= m_region.end THEN "AfterRegion"
    ELSE IF al.pos + al.span > m_region.begin THEN "OverlapsRegion"
    ELSE "BeforeRegion"

\* ------------------------------------------------------------------------
\* prefetch_start: the prefetch thread t
\* ------------------------------------------------------------------------

\* while(reader->do_prefetch)
PrefetchCheck(t) ==
    /\ t \in 1..Len(threads)
    /\ threads[t].pc = "check"
    /\ threads' = [threads EXCEPT ![t].pc = IF do_prefetch THEN "load" ELSE "exited"]
    /\ UNCHANGED <<file, multithreading, m_stream, do_prefetch,
                   prefetch_alignments, prefetch_tell_fail, m_region,
                   m_errorString, cpc, results, refStream, refResults,
                   history, nseeks, regionStart,
                   rewindStart, seekAt, dropped>>
    /\ UNCHANGED <<sortVars, commandVars, decodeVars, fastqVars>>

\* prefetch_tell_fail.push(m_stream.Tell()); LoadNextAlignmentInternal(*al)
PrefetchLoad(t) ==
    /\ t \in 1..Len(threads)
    /\ threads[t].pc = "load"
    /\ prefetch_tell_fail' = prefetch_tell_fail + 1
    /\ threads' = [threads EXCEPT ![t].al = LoadNextAlignmentInternal(m_stream),
                                  ![t].pc = "push"]
    /\ m_stream' = StreamAfterLoad(m_stream)
    /\ UNCHANGED <<file, multithreading, do_prefetch, prefetch_alignments,
                   m_region, m_errorString, cpc, results, refStream,
                   refResults, history, nseeks, regionStart,
                   rewindStart, seekAt, dropped>>
    /\ UNCHANGED <<sortVars, commandVars, decodeVars, fastqVars>>

\* a prefetch thread whose push puts al at the head of the queue
PrefetchPush_front(t) ==
    /\ t \in 1..Len(threads)
    /\ threads[t].pc = "push"
    /\ prefetch_alignments' = <<threads[t].al>> \o prefetch_alignments
    /\ threads' = [threads EXCEPT
           ![t].pc = IF threads[t].al = NullAlignment THEN "exited" ELSE "throttle"]
    /\ UNCHANGED <<file, multithreading, m_stream, do_prefetch,
                   prefetch_tell_fail, m_region, m_errorString, cpc, results,
                   refStream, refResults, history, nseeks, regionStart,
                   rewindStart, seekAt, dropped>>
    /\ UNCHANGED <<sortVars, commandVars, decodeVars, fastqVars>>

\* prefetch_alignments.push(al); if(!al) break
PrefetchPush(t) ==
    /\ t \in 1..Len(threads)
    /\ threads[t].pc = "push"
    /\ prefetch_alignments' = Append(prefetch_alignments, threads[t].al)
    /\ threads' = [threads EXCEPT
           ![t].pc = IF threads[t].al = NullAlignment THEN "exited" ELSE "throttle"]
    /\ UNCHANGED <<file, multithreading, m_stream, do_prefetch,
                   prefetch_tell_fail, m_region, m_errorString, cpc, results,
                   refStream, refResults, history, nseeks, regionStart,
                   rewindStart, seekAt, dropped>>
    /\ UNCHANGED <<sortVars, commandVars, decodeVars, fastqVars>>

\* if(count % 300 == 0) { getloadavg; pick a wait }; the thread that starts
\* no wait goes on to count++
PrefetchThrottle(t) ==
    /\ t \in 1..Len(threads)
    /\ threads[t].pc = "throttle"
    /\ \E highLoad \in BOOLEAN :
         LET size == Len(prefetch_alignments)
             next == IF threads[t].count % CheckPeriod # 0 THEN "check"
                     ELSE IF highLoad /\ size > HighLoadEnter THEN "wait_high"
                     ELSE IF size > LowLoadEnter THEN "wait_low"
                     ELSE "check"
         IN threads' = [threads EXCEPT
                ![t].pc = next,
                ![t].count = IF next = "check" THEN @ + 1 ELSE @,
                ![t].waited = @ \/ next # "check",
                ![t].entered = IF next = "wait_high" THEN "high"
                               ELSE IF next = "wait_low" THEN "low" ELSE @]
    /\ UNCHANGED <<file, multithreading, m_stream, do_prefetch,
                   prefetch_alignments, prefetch_tell_fail, m_region,
                   m_errorString, cpc, results, refStream, refResults,
                   history, nseeks, regionStart,
                   rewindStart, seekAt, dropped>>
    /\ UNCHANGED <<sortVars, commandVars, decodeVars, fastqVars>>

\* while(prefetch_alignments.size() > 100) usleep(20000); then count++
PrefetchWaitHigh(t) ==
    /\ t \in 1..Len(threads)
    /\ threads[t].pc = "wait_high"
    /\ ~(Len(prefetch_alignments) > HighLoadExit)
    /\ threads' = [threads EXCEPT ![t].pc = "check", ![t].count = @ + 1]
    /\ UNCHANGED <<file, multithreading, m_stream, do_prefetch,
                   prefetch_alignments, prefetch_tell_fail, m_region,
                   m_errorString, cpc, results, refStream, refResults,
                   history, nseeks, regionStart,
                   rewindStart, seekAt, dropped>>
    /\ UNCHANGED <<sortVars, commandVars, decodeVars, fastqVars>>

\* while(prefetch_alignments.size() > 5000) usleep(20000); then count++
PrefetchWaitLow(t) ==
    /\ t \in 1..Len(threads)
    /\ threads[t].pc = "wait_low"
    /\ ~(Len(prefetch_alignments) > LowLoadExit)
    /\ threads' = [threads EXCEPT ![t].pc = "check", ![t].count = @ + 1]
    /\ UNCHANGED <<file, multithreading, m_stream, do_prefetch,
                   prefetch_alignments, prefetch_tell_fail, m_region,
                   m_errorString, cpc, results, refStream, refResults,
                   history, nseeks, regionStart,
                   rewindStart, seekAt, dropped>>
    /\ UNCHANGED <<sortVars, commandVars, decodeVars, fastqVars>>

\* what pthread_create(&prefetch_thread, NULL, prefetch_start, this) starts
\* (waited is history: the thread has been in one of the two waits; entered
\* is history: the wait, "high" or "low", the thread entered last, until the
\* queue is seen shorter than the depth that wait is left at, else "none")
NewThread == [pc |-> "check", al |-> NullAlignment, count |-> 0,
              waited |-> FALSE, entered |-> "none"]

\* ------------------------------------------------------------------------
\* BamReaderPrivate: the caller's operations
\* ------------------------------------------------------------------------

\* BamReaderPrivate::StopPrefetch: do_prefetch is cleared; the join is
\* guarded by the flag just cleared and never runs, and the queue is kept
StopPrefetch == do_prefetch' = FALSE

\* BamReaderPrivate::Close
Close ==
    /\ cpc = "idle"
    /\ StopPrefetch
    /\ m_stream' = [m_stream EXCEPT !.open = FALSE]
    /\ refStream' = [refStream EXCEPT !.open = FALSE]
    /\ history' = "other"
    /\ UNCHANGED <<file, multithreading, prefetch_alignments,
                   prefetch_tell_fail, threads, m_region, m_errorString, cpc,
                   results, refResults, nseeks, regionStart>>
    /\ rewindStart' = -1
    /\ seekAt' = NoSeek
    /\ UNCHANGED dropped
    /\ UNCHANGED <<sortVars, commandVars, decodeVars, fastqVars>>

\* BamReaderPrivate::Open: Close(), open the stream, read the header, start
\* the prefetch thread; created says whether pthread_create succeeded, which
\* it does for the first cap threads at most
OpenStarting(cap) ==
    /\ cpc = "idle"
    /\ m_stream' = [open |-> TRUE, pos |-> m_alignmentsBeginOffset]
    /\ refStream' = [open |-> TRUE, pos |-> m_alignmentsBeginOffset]
    /\ \E created \in {c \in BOOLEAN : c => Len(threads) < cap} :
         /\ do_prefetch' = (multithreading /\ created)
         /\ threads' = IF multithreading /\ created
                       THEN Append(threads, NewThread) ELSE threads
    /\ history' = IF history = "new" THEN "scan" ELSE "other"
    /\ UNCHANGED <<file, multithreading, prefetch_alignments,
                   prefetch_tell_fail, m_region, m_errorString, cpc, results,
                   refResults, nseeks, regionStart>>
    /\ rewindStart' = -1
    /\ seekAt' = NoSeek
    /\ UNCHANGED dropped
    /\ UNCHANGED <<sortVars, commandVars, decodeVars, fastqVars>>

\* BamReaderPrivate::Open in SpecReader and SpecReaderLive
Open == OpenStarting(MaxThreads)

\* BamReaderPrivate::Open in SpecReopen
Reopen == OpenStarting(MaxReopenThreads)

\* BamReaderPrivate::Seek(position)
SeekTo(position) ==
    IF ~m_stream.open
    THEN /\ m_errorString' = "BamReader::Seek: cannot seek on unopened BAM file"
         /\ UNCHANGED <<m_stream, do_prefetch>>
    ELSE /\ StopPrefetch
         /\ m_stream' = [m_stream EXCEPT !.pos = position]
         /\ UNCHANGED m_errorString

\* the caller seeks to an offset of its choice
Seek ==
    /\ cpc = "idle"
    /\ nseeks < MaxSeeks
    /\ \E position \in 1..(Len(file) + 1) :
         /\ SeekTo(position)
         /\ refStream' = IF refStream.open
                         THEN [refStream EXCEPT !.pos = position] ELSE refStream
         /\ seekAt' = IF m_stream.open
                      THEN [start |-> Len(results), pos |-> position]
                      ELSE NoSeek
    /\ UNCHANGED dropped
    /\ history' = "other"
    /\ nseeks' = nseeks + 1
    /\ UNCHANGED <<file, multithreading, prefetch_alignments,
                   prefetch_tell_fail, threads, m_region, cpc, results,
                   refResults, regionStart>>
    /\ rewindStart' = -1
    /\ UNCHANGED <<sortVars, commandVars, decodeVars, fastqVars>>

\* the caller calls Seek(Tell()); Tell() is m_stream.Tell(), and the reader
\* that never prefetches stays where it is
SeekTell ==
    /\ cpc = "idle"
    /\ nseeks < MaxSeeks
    /\ SeekTo(m_stream.pos)
    /\ seekAt' = IF m_stream.open
                 THEN [start |-> Len(results), pos |-> m_stream.pos]
                 ELSE NoSeek
    /\ UNCHANGED dropped
    /\ history' = IF history \in {"scan", "tell"} THEN "tell" ELSE "other"
    /\ nseeks' = nseeks + 1
    /\ UNCHANGED <<file, multithreading, prefetch_alignments,
                   prefetch_tell_fail, threads, m_region, cpc, results,
                   refStream, refResults, regionStart>>
    /\ rewindStart' = -1
    /\ UNCHANGED <<sortVars, commandVars, decodeVars, fastqVars>>

\* BamReaderPrivate::Rewind
Rewind ==
    /\ cpc = "idle"
    /\ nseeks < MaxSeeks
    /\ StopPrefetch
    /\ m_region' = NoRegion
    /\ IF ~m_stream.open
       THEN /\ m_errorString' = "BamReader::Rewind: could not rewind: \n\tBamReader::Seek: cannot seek on unopened BAM file"
            /\ UNCHANGED m_stream
       ELSE /\ m_stream' = [m_stream EXCEPT !.pos = m_alignmentsBeginOffset]
            /\ UNCHANGED m_errorString
    /\ refStream' = IF refStream.open
                    THEN [refStream EXCEPT !.pos = m_alignmentsBeginOffset]
                    ELSE refStream
    /\ history' = "other"
    /\ nseeks' = nseeks + 1
    /\ UNCHANGED <<file, multithreading, prefetch_alignments,
                   prefetch_tell_fail, threads, cpc, results, refResults,
                   regionStart>>
    /\ rewindStart' = IF m_stream.open THEN Len(results) ELSE -1
    /\ seekAt' = IF m_stream.open
                 THEN [start |-> Len(results), pos |-> m_alignmentsBeginOffset]
                 ELSE NoSeek
    /\ UNCHANGED dropped
    /\ UNCHANGED <<sortVars, commandVars, decodeVars, fastqVars>>

\* GetNextAlignment of the reader that never prefetches, from stream st:
\* [res |-> the id returned (0 for none), st |-> the stream afterwards]
RECURSIVE RefGetNextAlignment(_)
RefGetNextAlignment(st) ==
    IF ~st.open \/ ~m_region.hasAlignments THEN [res |-> 0, st |-> st]
    ELSE LET al == LoadNextAlignmentInternal(st)
             after == StreamAfterLoad(st)
         IN IF al = NullAlignment THEN [res |-> 0, st |-> after]
            ELSE IF AlignmentState(al) = "AfterRegion" THEN [res |-> 0, st |-> after]
            ELSE IF AlignmentState(al) = "OverlapsRegion" THEN [res |-> al.id, st |-> after]
            ELSE RefGetNextAlignment(after)

\* GetNextAlignment returns id (0 for NULL or false)
Return(id) ==
    /\ results' = Append(results, id)
    /\ refResults' = Append(refResults, RefGetNextAlignment(refStream).res)
    /\ refStream' = RefGetNextAlignment(refStream).st
    /\ cpc' = "idle"

\* BamReaderPrivate::GetNextAlignment up to its first LoadNextAlignment
GetNextAlignment ==
    /\ cpc = "idle"
    /\ Len(results) < MaxResults
    /\ IF ~m_stream.open \/ ~m_region.hasAlignments
       THEN Return(0)
       ELSE /\ cpc' = "next"
            /\ UNCHANGED <<results, refResults, refStream>>
    /\ history' = IF history = "new" THEN "other" ELSE history
    /\ UNCHANGED <<file, multithreading, m_stream, do_prefetch,
                   prefetch_alignments, prefetch_tell_fail, threads, m_region,
                   m_errorString, nseeks, regionStart,
                   rewindStart, seekAt, dropped>>
    /\ UNCHANGED <<sortVars, commandVars, decodeVars, fastqVars>>

\* a GetNextAlignment that returns the alignments before the region too
Classify_beforeReturned(al) ==
    IF al = NullAlignment THEN Return(0)
    ELSE IF AlignmentState(al) = "AfterRegion" THEN Return(0)
    ELSE Return(al.id)

\* GetNextAlignment after LoadNextAlignment gave al
Classify(al) ==
    IF al = NullAlignment THEN Return(0)
    ELSE IF AlignmentState(al) = "AfterRegion" THEN Return(0)
    ELSE IF AlignmentState(al) = "OverlapsRegion" THEN Return(al.id)
    ELSE UNCHANGED <<results, refResults, refStream, cpc>>

\* history: GetNextAlignment() (the overload that returns a pointer) takes
\* the object al from LoadNextAlignment() and neither returns nor deletes it:
\* the pointer is overwritten by the next load, or NULL is returned
NotKept(al) ==
    al # NullAlignment /\ AlignmentState(al) # "OverlapsRegion"

\* history: the threads once the queue is seen with size alignments
QueueSeen(size) ==
    [t \in DOMAIN threads |->
        IF \/ threads[t].entered = "high" /\ size < HighLoadExit
           \/ threads[t].entered = "low" /\ size < LowLoadExit
        THEN [threads[t] EXCEPT !.entered = "none"]
        ELSE threads[t]]

\* LoadNextAlignment with do_prefetch set: wait for the queue, pop it
LoadNextAlignment_prefetched ==
    /\ cpc = "next"
    /\ do_prefetch
    /\ prefetch_alignments # <<>>
    /\ prefetch_alignments' = Tail(prefetch_alignments)
    /\ threads' = QueueSeen(Len(prefetch_alignments) - 1)
    /\ Classify(Head(prefetch_alignments))
    /\ dropped' = (dropped \/ NotKept(Head(prefetch_alignments)))
    /\ UNCHANGED <<file, multithreading, m_stream, do_prefetch,
                   prefetch_tell_fail, m_region, m_errorString,
                   history, nseeks, regionStart,
                   rewindStart, seekAt>>
    /\ UNCHANGED <<sortVars, commandVars, decodeVars, fastqVars>>

\* LoadNextAlignment with do_prefetch clear: LoadNextAlignmentInternal
LoadNextAlignment_direct ==
    /\ cpc = "next"
    /\ ~do_prefetch
    /\ m_stream' = StreamAfterLoad(m_stream)
    /\ Classify(LoadNextAlignmentInternal(m_stream))
    /\ dropped' = (\/ dropped
                   \/ LoadNextAlignmentInternal(m_stream) = NullAlignment
                   \/ NotKept(LoadNextAlignmentInternal(m_stream)))
    /\ UNCHANGED <<file, multithreading, do_prefetch, prefetch_alignments,
                   prefetch_tell_fail, threads, m_region, m_errorString,
                   history, nseeks, regionStart,
                   rewindStart, seekAt>>
    /\ UNCHANGED <<sortVars, commandVars, decodeVars, fastqVars>>

\* ------------------------------------------------------------------------
\* The reader's specification: open, next, seek, rewind, close in any order
\* ------------------------------------------------------------------------

\* the sorter of a run that only reads: never started
SorterUnused ==
    /\ input = <<>>
    /\ sort_order = "SORT_POSITION"
    /\ nothreads = TRUE
    /\ alignments_per_tempfile = 1
    /\ pc = "unused"
    /\ read_count = 0
    /\ buffer = <<>>
    /\ m_numberOfRuns = 0
    /\ m_tempFilenames = <<>>
    /\ thread_pool = {}
    /\ tempFiles = <<>>
    /\ readers = <<>>
    /\ ctr = 1
    /\ reads = <<>>
    /\ output = <<>>
    /\ retval = "none"
    /\ writeFailed = FALSE
    /\ completed = <<>>

\* a file of n alignments at ascending positions of reference 0
PlainFile(n) == [i \in 1..n |-> [id |-> i, ref |-> 0, pos |-> i, span |-> 1]]

InitReader ==
    /\ \E n \in 0..MaxFile : file = PlainFile(n)
    /\ multithreading \in BOOLEAN
    /\ ReaderConstructed
    /\ SorterUnused
    /\ CommandUnused
    /\ DecoderUnused
    /\ FastqUnused

PrefetchThread ==
    \E t \in 1..MaxThreads :
        \/ PrefetchCheck(t)
        \/ PrefetchLoad(t)
        \/ PrefetchPush(t)
        \/ PrefetchThrottle(t)
        \/ PrefetchWaitHigh(t)
        \/ PrefetchWaitLow(t)

NextReader ==
    \/ Open
    \/ Close
    \/ Seek
    \/ SeekTell
    \/ Rewind
    \/ GetNextAlignment
    \/ LoadNextAlignment_prefetched
    \/ LoadNextAlignment_direct
    \/ PrefetchThread

SpecReader == InitReader /\ [][NextReader]_vars

\* the reader with a prefetch thread that the scheduler keeps running: a
\* thread that can take a step of prefetch_start eventually takes one
SpecReaderLive == SpecReader /\ WF_vars(PrefetchThread)

\* the reader with a scheduler that keeps both the prefetch thread and the
\* caller running: a caller inside LoadNextAlignment that can pop the queue
\* (its usleep(5000) poll sees an element) or can read the stream goes on
SpecNextLive ==
    /\ SpecReaderLive
    /\ WF_vars(LoadNextAlignment_prefetched)
    /\ WF_vars(LoadNextAlignment_direct)

\* the reader opened, read, closed and opened again, with a prefetch thread
\* started by each of the first MaxReopenThreads Open() calls
InitReopen ==
    /\ \E n \in 0..MaxReopenFile : file = PlainFile(n)
    /\ multithreading \in BOOLEAN
    /\ ReaderConstructed
    /\ SorterUnused
    /\ CommandUnused
    /\ DecoderUnused
    /\ FastqUnused

ReopenPrefetchThread ==
    \E t \in 1..MaxReopenThreads :
        \/ PrefetchCheck(t)
        \/ PrefetchLoad(t)
        \/ PrefetchPush(t)
        \/ PrefetchThrottle(t)
        \/ PrefetchWaitHigh(t)
        \/ PrefetchWaitLow(t)

NextReopen ==
    \/ Reopen
    \/ Close
    \/ GetNextAlignment
    \/ LoadNextAlignment_prefetched
    \/ LoadNextAlignment_direct
    \/ ReopenPrefetchThread

SpecReopen == InitReopen /\ [][NextReopen]_vars

\* ------------------------------------------------------------------------
\* The region specification: a reader just opened, one SetRegion, then next
\* ------------------------------------------------------------------------

\* the regions SetRegion is called with
Regions == {[ref |-> 0, begin |-> 1, end |-> 2],
            [ref |-> 1, begin |-> 0, end |-> 1]}

\* BamRandomAccessController::SetRegion as BamReaderPrivate::SetRegion uses
\* it: the region is stored; the controller may report that the region has
\* no alignments when the file has none in it
SetRegion ==
    /\ cpc = "idle"
    /\ m_region = NoRegion
    /\ \E region \in Regions, has \in BOOLEAN :
         /\ ~has => \A i \in 1..Len(file) :
                       ~(/\ file[i].ref = region.ref
                         /\ file[i].pos < region.end
                         /\ file[i].pos + file[i].span > region.begin)
         /\ m_region' = [ref |-> region.ref, begin |-> region.begin,
                         end |-> region.end, hasAlignments |-> has]
    /\ regionStart' = Len(results)
    /\ history' = "other"
    /\ UNCHANGED <<file, multithreading, m_stream, do_prefetch,
                   prefetch_alignments, prefetch_tell_fail, threads,
                   m_errorString, cpc, results, refStream, refResults, nseeks>>
    /\ rewindStart' = -1
    /\ seekAt' = NoSeek
    /\ UNCHANGED dropped
    /\ UNCHANGED <<sortVars, commandVars, decodeVars, fastqVars>>

\* what the alignments of the region files draw from: on reference 0 one
\* alignment at each of the positions 0..2, one at 0 that spans two bases;
\* one on reference 1; one unmapped
RegionAttrs ==
    [ref : {0}, pos : 0..2, span : {1}]
    \cup {[ref |-> 0, pos |-> 0, span |-> 2],
          [ref |-> 1, pos |-> 0, span |-> 1],
          [ref |-> -1, pos |-> 0, span |-> 1]}

\* every file of up to MaxFile such alignments, sorted or not
RegionFiles ==
    UNION {{[i \in 1..n |-> [id |-> i, ref |-> f[i].ref, pos |-> f[i].pos,
                             span |-> f[i].span]] : f \in [1..n -> RegionAttrs]}
           : n \in 0..MaxFile}

\* the reader as Open() leaves it
InitRegion ==
    /\ file \in RegionFiles
    /\ multithreading \in BOOLEAN
    /\ m_stream = [open |-> TRUE, pos |-> m_alignmentsBeginOffset]
    /\ do_prefetch = multithreading
    /\ prefetch_alignments = <<>>
    /\ prefetch_tell_fail = 0
    /\ threads = IF multithreading THEN <<NewThread>> ELSE <<>>
    /\ m_region = NoRegion
    /\ m_errorString = ""
    /\ cpc = "idle"
    /\ results = <<>>
    /\ refStream = [open |-> TRUE, pos |-> m_alignmentsBeginOffset]
    /\ refResults = <<>>
    /\ history = "scan"
    /\ nseeks = 0
    /\ regionStart = 0
    /\ rewindStart = -1
    /\ seekAt = NoSeek
    /\ dropped = FALSE
    /\ SorterUnused
    /\ CommandUnused
    /\ DecoderUnused
    /\ FastqUnused

NextRegion ==
    \/ SetRegion
    \/ GetNextAlignment
    \/ LoadNextAlignment_prefetched
    \/ LoadNextAlignment_direct
    \/ PrefetchThread

SpecRegion == InitRegion /\ [][NextRegion]_vars

\* ------------------------------------------------------------------------
\* BamReaderPrivate::LoadNextAlignmentInternal over the bytes of the stream
\* ------------------------------------------------------------------------

\* Constants::BAM_CORE_SIZE
BAM_CORE_SIZE == 32
\* Constants::BAM_CIGAR_SHIFT and Constants::BAM_CIGAR_MASK
BAM_CIGAR_SHIFT == 4
BAM_CIGAR_MASK == 15
\* Constants::BAM_CIGAR_LOOKUP, a C string: the nine codes and its final NUL
BAM_CIGAR_LOOKUP == <<"M", "I", "D", "N", "S", "H", "P", "=", "X", "NUL">>

\* 2^n
RECURSIVE Pow2(_)
Pow2(n) == IF n = 0 THEN 1 ELSE 2 * Pow2(n - 1)

\* unsigned int arithmetic: the difference a - b
UIntMinus(a, b) == (a + Pow2(UIntBits) - b) % Pow2(UIntBits)

\* the block lengths tried: none, shorter than the core, the core alone, the
\* core and one or two words of payload
BlockLengths == {0, 1, 31, 32, 36, 40}

\* the CIGAR operation codes tried (three more than the table holds), and
\* the CIGAR words made of them: length 1 of each code, and 2X
CigarCodes == {0, 8, 9, 15}
CigarWords == {1 * Pow2(BAM_CIGAR_SHIFT) + c : c \in CigarCodes}
                  \cup {2 * Pow2(BAM_CIGAR_SHIFT) + 8}

\* what a read outside BAM_CIGAR_LOOKUP may find
BeyondLookup == {"NUL", "M", "?"}

\* the streams tried: how many bytes are left for the block length, the core
\* and the character data, and what they hold; words[i] is the 32-bit word
\* at offset QueryNameLength + 4 * (i - 1) of the character data.  A stream
\* that runs out in one part has nothing in the parts behind it.
Chunks ==
    {c \in [lengthBytes : {0, 2, 4},
            BlockLength : BlockLengths,
            coreBytes : {0, 31, 32},
            QueryNameLength : {0, 4},
            NumCigarOperations : 0..2,
            words : [1..2 -> CigarWords],
            charBytes : {0, 3, 4, 8, UIntMinus(1, BAM_CORE_SIZE),
                         UIntMinus(31, BAM_CORE_SIZE)}] :
        /\ c.lengthBytes < 4 => c.coreBytes = 0
        /\ c.coreBytes < BAM_CORE_SIZE => c.charBytes = 0}

\* m_stream.Read(buffer, n) with left bytes left in the stream
StreamRead(left, n) == IF left < n THEN left ELSE n

\* LoadNextAlignmentInternal returns ok ("true" or "false")
DecodeReturn(ok) ==
    /\ dec_ret' = ok
    /\ dec_pc' = "returned"

\* read in the 'block length' value, make sure it's not zero.  After a read
\* of fewer than 4 bytes the rest of buffer is not initialized.
ReadBlockLength ==
    /\ dec_pc = "length"
    /\ IF StreamRead(chunk.lengthBytes, 4) = 0
       THEN /\ DecodeReturn("false")
            /\ UNCHANGED SupportData
       ELSE \E BlockLength \in BlockLengths :
              /\ chunk.lengthBytes = 4 => BlockLength = chunk.BlockLength
              /\ SupportData' = [SupportData EXCEPT !.BlockLength = BlockLength]
              /\ IF BlockLength = 0
                 THEN DecodeReturn("false")
                 ELSE /\ dec_pc' = "core"
                      /\ UNCHANGED dec_ret
    /\ UNCHANGED <<chunk, dataLength, CigarData, cerr, outside>>
    /\ UNCHANGED <<sortVars, readerVars, commandVars, fastqVars>>

\* read in core alignment data, make sure the right size of data was read
ReadCore ==
    /\ dec_pc = "core"
    /\ IF StreamRead(chunk.coreBytes, BAM_CORE_SIZE) # BAM_CORE_SIZE
       THEN /\ cerr' = Append(cerr, "Expected more bytes reading BAM core.")
            /\ DecodeReturn("false")
            /\ UNCHANGED SupportData
       ELSE /\ SupportData' = [SupportData EXCEPT
                   !.QueryNameLength = chunk.QueryNameLength,
                   !.NumCigarOperations = chunk.NumCigarOperations]
            /\ dec_pc' = "chardata"
            /\ UNCHANGED <<cerr, dec_ret>>
    /\ UNCHANGED <<chunk, dataLength, CigarData, outside>>
    /\ UNCHANGED <<sortVars, readerVars, commandVars, fastqVars>>

\* the CigarOps the loop over NumCigarOperations builds from the words w,
\* the types of the codes outside BAM_CIGAR_LOOKUP being those of beyond
CigarOps(w, beyond) ==
    [i \in 1..SupportData.NumCigarOperations |->
        LET code == w[i] % (BAM_CIGAR_MASK + 1)
        IN [Length |-> w[i] \div Pow2(BAM_CIGAR_SHIFT),
            Type |-> IF code < Len(BAM_CIGAR_LOOKUP)
                     THEN BAM_CIGAR_LOOKUP[code + 1] ELSE beyond[i]]]

\* the word i of the CIGAR lies inside the n bytes of allCharData
WordInside(i, n) == SupportData.QueryNameLength + 4 * i <= n

\* read in character data and save the CIGAR ops.  RaiiBuffer may fail to
\* allocate a length that wrapped around; the words read outside allCharData
\* and the types read outside BAM_CIGAR_LOOKUP are whatever lies there.
ReadCharData ==
    /\ dec_pc = "chardata"
    /\ LET n == UIntMinus(SupportData.BlockLength, BAM_CORE_SIZE)
       IN /\ dataLength' = n
          /\ \/ /\ SupportData.BlockLength < BAM_CORE_SIZE
                /\ dec_pc' = "thrown"
                /\ UNCHANGED <<dec_ret, cerr, CigarData, outside>>
             \/ /\ StreamRead(chunk.charBytes, n) # n
                /\ cerr' = Append(cerr, "Expected more bytes reading BAM char data.")
                /\ DecodeReturn("false")
                /\ UNCHANGED <<CigarData, outside>>
             \/ /\ StreamRead(chunk.charBytes, n) = n
                /\ \E w \in [1..SupportData.NumCigarOperations -> CigarWords],
                      beyond \in [1..SupportData.NumCigarOperations -> BeyondLookup] :
                     /\ \A i \in 1..SupportData.NumCigarOperations :
                            /\ WordInside(i, n) => w[i] = chunk.words[i]
                            /\ w[i] % (BAM_CIGAR_MASK + 1) < Len(BAM_CIGAR_LOOKUP)
                                   => beyond[i] = "NUL"
                     /\ CigarData' = CigarOps(w, beyond)
                     /\ outside' =
                            \E i \in 1..SupportData.NumCigarOperations :
                                \/ ~WordInside(i, n)
                                \/ w[i] % (BAM_CIGAR_MASK + 1) >= Len(BAM_CIGAR_LOOKUP)
                /\ DecodeReturn("true")
                /\ UNCHANGED cerr
    /\ UNCHANGED <<chunk, SupportData>>
    /\ UNCHANGED <<sortVars, readerVars, commandVars, fastqVars>>

\* one call of LoadNextAlignmentInternal on each of the streams
InitDecode ==
    /\ chunk \in Chunks
    /\ dec_pc = "length"
    /\ SupportData = [BlockLength |-> 0, QueryNameLength |-> 0,
                      NumCigarOperations |-> 0]
    /\ dataLength = 0
    /\ CigarData = <<>>
    /\ dec_ret = "none"
    /\ cerr = <<>>
    /\ outside = FALSE
    /\ SorterUnused
    /\ file = <<>>
    /\ multithreading = FALSE
    /\ ReaderConstructed
    /\ CommandUnused
    /\ FastqUnused

NextDecode ==
    \/ ReadBlockLength
    \/ ReadCore
    \/ ReadCharData

SpecDecode == InitDecode /\ [][NextDecode]_vars

\* ------------------------------------------------------------------------
\* The commands: LocalRealignCommand::runCommand, DedupCommand::runCommand
\* ------------------------------------------------------------------------

\* what AlgorithmModule::runChain() returns: 0 when every stage succeeded
ChainResults == {0, -1}

\* a step of a command leaves the command line as it is
CommandLineUnchanged ==
    UNCHANGED <<command, vm, input_filenames, cmd_nothreads, numberThreads>>

\* LocalRealignCommand::runCommand: the reference option; vm["intervals"]
\* of an option that was not given holds no string, and as<string>() throws
LocalRealign_Options ==
    /\ command = "localrealign"
    /\ cmd_pc = "start"
    /\ IF vm.reference # 1
       THEN /\ cmd_ret' = -1
            /\ cmd_pc' = "returned"
       ELSE /\ cmd_pc' = IF vm.intervals = 0 THEN "thrown" ELSE "inputs"
            /\ UNCHANGED cmd_ret
    /\ UNCHANGED <<duplicate_markers, chainResult, pipeline>>
    /\ CommandLineUnchanged
    /\ UNCHANGED <<sortVars, readerVars, decodeVars, fastqVars>>

\* LocalRealignCommand::runCommand: the number of input files
LocalRealign_Inputs ==
    /\ command = "localrealign"
    /\ cmd_pc = "inputs"
    /\ IF input_filenames # 1
       THEN /\ cmd_ret' = -1
            /\ cmd_pc' = "returned"
       ELSE /\ cmd_pc' = "chain"
            /\ UNCHANGED cmd_ret
    /\ UNCHANGED <<duplicate_markers, chainResult, pipeline>>
    /\ CommandLineUnchanged
    /\ UNCHANGED <<sortVars, readerVars, decodeVars, fastqVars>>

\* LocalRealignCommand::runCommand: reader.runChain(); return 0;
LocalRealign_runChain ==
    /\ command = "localrealign"
    /\ cmd_pc = "chain"
    /\ \E result \in ChainResults : chainResult' = result
    /\ cmd_ret' = 0
    /\ cmd_pc' = "returned"
    /\ UNCHANGED <<duplicate_markers, pipeline>>
    /\ CommandLineUnchanged
    /\ UNCHANGED <<sortVars, readerVars, decodeVars, fastqVars>>

\* DedupCommand::runCommand: int num_chains = min(12, getNumberThreads()/2)
num_chains ==
    IF numberThreads \div 2 < 12 THEN numberThreads \div 2 ELSE 12

\* the chain of the first branch: reader -> mark_duplicates -> writer
SingleChain(do_remove_duplicates) ==
    [readerSinks |-> <<"mark_duplicates">>,
     splitSinks |-> <<>>,
     markerSinks |-> <<<<"writer">>>>,
     mergeSources |-> <<>>,
     mergeSinks |-> <<>>,
     removeDuplicates |-> <<do_remove_duplicates>>]

\* mutant: the loop that forms the chains inside the split leaves the last
\* MarkDuplicates out of the sinks of the split
SplitChains_sinkMissed(n, do_remove_duplicates) ==
    [readerSinks |-> <<"split">>,
     splitSinks |-> [c \in 1..(n - 1) |-> c],
     markerSinks |-> [c \in 1..n |-> <<"merge">>],
     mergeSources |-> [c \in 1..n |-> c],
     mergeSinks |-> <<"writer">>,
     removeDuplicates |-> [c \in 1..n |-> do_remove_duplicates]]

\* the chains of the second branch: reader -> split -> n MarkDuplicates ->
\* merge -> writer; MarkDuplicates c is the one the loop makes in turn ctr = c - 1,
\* and merge.addSource(m) makes the merge the sink of m
SplitChains(n, do_remove_duplicates) ==
    [readerSinks |-> <<"split">>,
     splitSinks |-> [c \in 1..n |-> c],
     markerSinks |-> [c \in 1..n |-> <<"merge">>],
     mergeSources |-> [c \in 1..n |-> c],
     mergeSinks |-> <<"writer">>,
     removeDuplicates |-> [c \in 1..n |-> do_remove_duplicates]]

\* DedupCommand::runCommand builds its chain: one MarkDuplicates on the
\* stack, or num_chains of them on the heap between split and merge
Dedup_Build ==
    /\ command = "dedup"
    /\ cmd_pc = "start"
    /\ pipeline' =
           IF cmd_nothreads \/ vm.nosplit # 0 \/ num_chains <= 1
           THEN SingleChain(vm.remove # 0)
           ELSE SplitChains(num_chains, vm.remove # 0)
    /\ duplicate_markers' =
           IF cmd_nothreads \/ vm.nosplit # 0 \/ num_chains <= 1
           THEN 0 ELSE num_chains
    /\ cmd_pc' = "chain"
    /\ UNCHANGED <<chainResult, cmd_ret>>
    /\ CommandLineUnchanged
    /\ UNCHANGED <<sortVars, readerVars, decodeVars, fastqVars>>

\* DedupCommand::runCommand: writer.runChain(), the markers deleted, the
\* result returned
Dedup_runChain ==
    /\ command = "dedup"
    /\ cmd_pc = "chain"
    /\ \E result \in ChainResults :
         /\ chainResult' = result
         /\ cmd_ret' = result
    /\ duplicate_markers' = 0
    /\ cmd_pc' = "returned"
    /\ UNCHANGED pipeline
    /\ CommandLineUnchanged
    /\ UNCHANGED <<sortVars, readerVars, decodeVars, fastqVars>>

\* a command about to run on some command line
InitCommand ==
    /\ command \in {"localrealign", "dedup"}
    /\ vm \in [reference : 0..1, intervals : 0..1, nosplit : 0..1,
                remove : 0..1]
    /\ pipeline = NoPipeline
    /\ input_filenames \in 0..MaxGiven
    /\ cmd_nothreads \in BOOLEAN
    /\ numberThreads \in ThreadCounts
    /\ cmd_pc = "start"
    /\ duplicate_markers = 0
    /\ chainResult = "none"
    /\ cmd_ret = "none"
    /\ SorterUnused
    /\ file = <<>>
    /\ multithreading = FALSE
    /\ ReaderConstructed
    /\ DecoderUnused
    /\ FastqUnused

NextCommand ==
    \/ LocalRealign_Options
    \/ LocalRealign_Inputs
    \/ LocalRealign_runChain
    \/ Dedup_Build
    \/ Dedup_runChain

SpecCommand == InitCommand /\ [][NextCommand]_vars

\* ------------------------------------------------------------------------
\* FastqWriter (openge/src/util/fastq_writer.cpp)
\* ------------------------------------------------------------------------

\* the alignments given to SaveAlignment: a.Name, a.QueryBases, a.Qualities
\* (after BuildCharData) and a.IsReverseStrand()
FastqNames == {1, 2}
FastqAlignments ==
    [Name : FastqNames,
     QueryBases : {<<"A", "C">>},
     Qualities : {<<"#", "I">>},
     IsReverseStrand : BOOLEAN]

\* the filenames given to Open, and whether ofstream::open succeeds on each
\* of the three files
FastqFilenames == {"stdout", "out"}
OpenOutcomes == [fwd : BOOLEAN, rev : BOOLEAN, orphan : BOOLEAN]

\* std::reverse
Reverse(str) == [i \in 1..Len(str) |-> str[Len(str) + 1 - i]]

\* compliment(str)
compliment(str) ==
    [i \in 1..Len(str) |->
        CASE str[i] = "A" -> "T"
          [] str[i] = "C" -> "G"
          [] str[i] = "G" -> "C"
          [] str[i] = "T" -> "A"
          [] OTHER -> str[i]]

\* the four lines "@name mate / seq / +name mate / qual" written with one
\* statement; id is history: the SaveAlignment call the bases came from
Entry(name, mate, seq, qual, id) ==
    [name |-> name, mate |-> mate, seq |-> seq, qual |-> qual, id |-> id]

\* ofstream::open(name, ios::out): fails on a stream that is open already,
\* else succeeds or not as the file system decides; the file starts empty
StreamOpen(f, ok) ==
    IF f.isopen \/ ~ok THEN [f EXCEPT !.bad = TRUE]
    ELSE [isopen |-> TRUE, bad |-> FALSE, text |-> <<>>]

\* ofstream::close(): fails on a stream that is not open
StreamClose(f) ==
    IF f.isopen THEN [f EXCEPT !.isopen = FALSE] ELSE [f EXCEPT !.bad = TRUE]

\* operator<< of the entries es on the ofstream f: nothing is written to a
\* stream that is not open or has failed, and the stream is failed then
Written(f, es) ==
    IF es = <<>> THEN f
    ELSE IF f.isopen /\ ~f.bad THEN [f EXCEPT !.text = @ \o es]
    ELSE [f EXCEPT !.bad = TRUE]

\* *stream << es for the pointer stream, on the file named target
WrittenThrough(stream, target, f, es) ==
    IF stream = target THEN Written(f, es) ELSE f

\* potential_pairs.find(name): the records stored under name (one at most)
Find(name) == {rec \in potential_pairs : rec.name = name}

\* a potential_pairs.erase(it) that erases nothing
Erased_kept(rec) == potential_pairs

\* potential_pairs.erase(it)
Erased(rec) == potential_pairs \ {rec}

\* the keys of potential_pairs in the order the std::map iterates them
RECURSIVE InOrder(_)
InOrder(pairs) ==
    IF pairs = {} THEN <<>>
    ELSE LET first == CHOOSE rec \in pairs :
                          \A other \in pairs : rec.name <= other.name
         IN <<first>> \o InOrder(pairs \ {first})

\* what Close writes to the orphan stream
OrphanEntries ==
    [i \in 1..Cardinality(potential_pairs) |->
        LET rec == InOrder(potential_pairs)[i]
        IN Entry(rec.name, "", rec.seq, rec.qual, rec.id)]

\* FastqWriter::Open, called once on a writer just constructed
FastqOpen ==
    /\ fq_pc = "constructed"
    /\ \E filename \in FastqFilenames, ok \in OpenOutcomes :
         IF filename = "stdout"
         THEN /\ open' = TRUE
              /\ UNCHANGED <<fwd_stream, rev_stream, orphan_stream,
                             fwd_file, rev_file, orphan_file>>
         ELSE LET fwd == StreamOpen(fwd_file, ok.fwd)
                  rev == StreamOpen(rev_file, ok.rev)
                  orphan == StreamOpen(orphan_file, ok.orphan)
              IN /\ fwd_file' = fwd
                 /\ fwd_stream' = IF fwd.bad THEN fwd_stream ELSE "fwd_file"
                 /\ rev_file' = IF fwd.bad THEN rev_file ELSE rev
                 /\ rev_stream' = IF fwd.bad \/ rev.bad THEN rev_stream
                                  ELSE "rev_file"
                 /\ orphan_file' = IF fwd.bad \/ rev.bad THEN orphan_file
                                   ELSE orphan
                 /\ orphan_stream' = IF fwd.bad \/ rev.bad \/ orphan.bad
                                     THEN orphan_stream ELSE "orphan_file"
                 /\ open' = IF fwd.bad \/ rev.bad \/ orphan.bad THEN open
                            ELSE TRUE
    /\ fq_pc' = "used"
    /\ UNCHANGED <<cout, potential_pairs, saved, closes, savedAtClose>>
    /\ UNCHANGED <<sortVars, readerVars, commandVars, decodeVars>>

\* FastqWriter::SaveAlignment
FastqSaveAlignment ==
    /\ fq_pc # "exited"
    /\ Len(saved) < MaxSaved
    /\ \E a \in FastqAlignments :
         LET id == Len(saved) + 1
         IN /\ saved' = Append(saved, a)
            /\ IF fwd_stream = rev_stream
               THEN /\ cout' = Append(cout, Entry(a.Name, "", a.QueryBases,
                                                  a.Qualities, id))
                    /\ fq_pc' = "used"
                    /\ UNCHANGED <<fwd_file, rev_file, potential_pairs>>
               ELSE IF Find(a.Name) = {}
               THEN /\ potential_pairs' = potential_pairs \cup
                           {[name |-> a.Name, seq |-> a.QueryBases,
                             qual |-> a.Qualities, id |-> id]}
                    /\ fq_pc' = "used"
                    /\ UNCHANGED <<fwd_file, rev_file, cout>>
               ELSE LET rec == CHOOSE r \in Find(a.Name) : TRUE
                        mine == [seq |-> a.QueryBases, qual |-> a.Qualities,
                                 id |-> id]
                        fwd == IF a.IsReverseStrand THEN rec ELSE mine
                        rev == IF a.IsReverseStrand THEN mine ELSE rec
                        fwd_entry == Entry(a.Name, "/1", fwd.seq, fwd.qual,
                                           fwd.id)
                        rev_entry == Entry(a.Name, "/2",
                                           compliment(Reverse(rev.seq)),
                                           Reverse(rev.qual), rev.id)
                        fwd_after == WrittenThrough(fwd_stream, "fwd_file",
                                                    fwd_file, <<fwd_entry>>)
                        rev_after == WrittenThrough(rev_stream, "rev_file",
                                                    rev_file, <<rev_entry>>)
                        fail == \/ fwd_stream = "fwd_file" /\ fwd_after.bad
                                \/ rev_stream = "rev_file" /\ rev_after.bad
                    IN /\ fwd_file' = fwd_after
                       /\ rev_file' = rev_after
                       /\ cout' = cout
                                \o (IF fwd_stream = "cout" THEN <<fwd_entry>>
                                    ELSE <<>>)
                                \o (IF rev_stream = "cout" THEN <<rev_entry>>
                                    ELSE <<>>)
                       /\ fq_pc' = IF fail THEN "exited" ELSE "used"
                       /\ potential_pairs' = IF fail THEN potential_pairs
                                             ELSE Erased(rec)
    /\ UNCHANGED <<open, fwd_stream, rev_stream, orphan_stream, orphan_file,
                   closes, savedAtClose>>
    /\ UNCHANGED <<sortVars, readerVars, commandVars, decodeVars>>

\* FastqWriter::Close
FastqClose ==
    /\ fq_pc # "exited"
    /\ closes < MaxCloses
    /\ LET orphan_after == WrittenThrough(orphan_stream, "orphan_file",
                                          orphan_file, OrphanEntries)
       IN /\ cout' = IF orphan_stream = "cout" THEN cout \o OrphanEntries
                     ELSE cout
          /\ IF open
             THEN /\ fwd_file' = StreamClose(fwd_file)
                  /\ rev_file' = StreamClose(rev_file)
                  /\ orphan_file' = StreamClose(orphan_after)
             ELSE /\ orphan_file' = orphan_after
                  /\ UNCHANGED <<fwd_file, rev_file>>
    /\ open' = FALSE
    /\ fq_pc' = "used"
    /\ closes' = closes + 1
    /\ savedAtClose' = IF closes = 0 THEN Len(saved) ELSE savedAtClose
    /\ UNCHANGED <<fwd_stream, rev_stream, orphan_stream, potential_pairs,
                   saved>>
    /\ UNCHANGED <<sortVars, readerVars, commandVars, decodeVars>>

\* a writer constructed, opened or not, then given alignments and closed in
\* any order
InitFastq ==
    /\ FastqConstructed
    /\ SorterUnused
    /\ file = <<>>
    /\ multithreading = FALSE
    /\ ReaderConstructed
    /\ CommandUnused
    /\ DecoderUnused

NextFastq ==
    \/ FastqOpen
    \/ FastqSaveAlignment
    \/ FastqClose

SpecFastq == InitFastq /\ [][NextFastq]_vars

\* ------------------------------------------------------------------------
\* Properties of the sorter
\* ------------------------------------------------------------------------

\* the elements of a sequence
Range(s) == {s[i] : i \in 1..Len(s)}

\* l and r have equal keys under the sort order
EqualKeys(order, l, r) == ~Cmp(order, l, r) /\ ~Cmp(order, r, l)

\* the consecutive runs of at most n records a stream is cut into
RECURSIVE RunsOf(_, _)
RunsOf(s, n) ==
    IF s = <<>> THEN <<>>
    ELSE IF Len(s) <= n THEN <<s>>
    ELSE <<SubSeq(s, 1, n)>> \o RunsOf(SubSeq(s, n + 1, Len(s)), n)

\* the merge queue seeded with the heads of the first k runs
RECURSIVE SeedOf(_, _)
SeedOf(runs, k) ==
    IF k = 0 THEN <<>>
    ELSE multiset_insert(SeedOf(runs, k - 1), [read |-> runs[k][1], source |-> k])

\* the merge of runs from queue q, nexts[i] being the next unread index of run i
RECURSIVE MergeOf(_, _, _)
MergeOf(runs, nexts, q) ==
    IF q = <<>> THEN <<>>
    ELSE LET el == Head(q)
             i == el.source
             rest == IF nexts[i] <= Len(runs[i])
                     THEN multiset_insert(Tail(q),
                              [read |-> runs[i][nexts[i]], source |-> i])
                     ELSE Tail(q)
         IN <<el.read>> \o MergeOf(runs, [nexts EXCEPT ![i] = @ + 1], rest)

\* what the sort emits when every spill is written before the next is started
SequentialOutput ==
    LET cut == RunsOf(input, alignments_per_tempfile)
        runs == [i \in 1..Len(cut) |-> stable_sort(sort_order, cut[i])]
    IN MergeOf(runs, [i \in 1..Len(runs) |-> 2], SeedOf(runs, Len(runs)))

\* C1: the records emitted are records of the input, none is emitted twice,
\* and when Run() has returned every input record has been emitted.
C1_OutputIsPermutation ==
    /\ \A j, k \in 1..Len(output) : output[j].id = output[k].id => j = k
    /\ \A j \in 1..Len(output) : output[j] \in Range(input)
    /\ pc = "done" => \A i \in 1..Len(input) : input[i] \in Range(output)

\* C1: a threaded sort of three records spilled to two or more runs has returned
C1_Witness ==
    /\ pc = "done"
    /\ ~nothreads
    /\ Len(output) >= 3
    /\ m_numberOfRuns >= 2

\* C2: when Run() has returned, the output is non-decreasing under the
\* comparator of the sort order (by name, or by position).
C2_OutputSorted ==
    pc = "done" =>
        \A i, j \in 1..Len(output) :
            i < j => IF sort_order = "SORT_NAME"
                     THEN output[i].name <= output[j].name
                     ELSE ~ByPosition(output[j], output[i])

\* C3: when Run() has returned, two records with equal keys are emitted in
\* the order in which they were read from the input.
C3_OutputStable ==
    pc = "done" =>
        \A i, j \in 1..Len(output) :
            (i < j /\ EqualKeys(sort_order, output[i], output[j]))
                => output[i].id < output[j].id

\* C4: the output of a finished sort is one function of the input, the sort
\* order and the buffer limit, whatever order the spill jobs ran and ended in.
C4_OutputDeterministic ==
    pc = "done" => output = SequentialOutput

\* C4: a threaded sort has returned whose spill jobs ended out of order and
\* whose runs hold records with equal merge keys
C4_Witness ==
    /\ pc = "done"
    /\ ~nothreads
    /\ \E i, j \in 1..Len(completed) : i < j /\ completed[i] > completed[j]
    /\ \E i, j \in 1..Len(output) :
           i # j /\ ~ByPosition(output[i], output[j]) /\ ~ByPosition(output[j], output[i])

\* C10: once a temp file could not be written, the run ends with Run()
\* returning failure.
C10_SpillFailureReturned ==
    (writeFailed /\ pc \in {"done", "exited"}) => (pc = "done" /\ retval = FALSE)

\* C11: once MergeSortedRuns has returned no file named in m_tempFilenames
\* is left and no merge reader exists; and a step that removes a temp file
\* finds every record of that file in the output already.
C11_TempFilesCleaned ==
    /\ [](pc \in {"return", "done"} =>
             /\ \A i \in 1..Len(m_tempFilenames) :
                    m_tempFilenames[i] \notin DOMAIN tempFiles
             /\ readers = <<>>)
    /\ [][\A f \in DOMAIN tempFiles \ DOMAIN tempFiles' :
             \A k \in 1..Len(tempFiles[f]) : tempFiles[f][k] \in Range(output)]_vars

\* C11: a threaded sort of three records in two or more runs has merged its
\* temp files and left none of them behind
C11_Witness ==
    /\ pc = "return"
    /\ ~nothreads
    /\ Len(m_tempFilenames) >= 2
    /\ Len(output) = 3
    /\ DOMAIN tempFiles = {}

\* the records of run f (0-based) when the input is cut, in arrival order,
\* into consecutive runs of alignments_per_tempfile records
RunOfInput(f) ==
    LET first == f * alignments_per_tempfile + 1
        last == IF (f + 1) * alignments_per_tempfile <= Len(input)
                THEN (f + 1) * alignments_per_tempfile ELSE Len(input)
    IN SubSeq(input, first, last)

\* the number of such runs: Len(input) / alignments_per_tempfile, rounded up
NumberOfRunsOfInput ==
    (Len(input) + alignments_per_tempfile - 1) \div alignments_per_tempfile

\* the runs handed out so far are the first runs of the input, the buffer
\* holds what was read since, and every run is where it was handed to
C20_RunsInState ==
    /\ m_numberOfRuns <= NumberOfRunsOfInput
    /\ Len(m_tempFilenames) = m_numberOfRuns
    /\ \A k \in 1..Len(m_tempFilenames) : m_tempFilenames[k] = k - 1
    /\ pc = "generate" =>
           /\ buffer = SubSeq(input, m_numberOfRuns * alignments_per_tempfile + 1,
                              read_count)
           /\ Len(buffer) <= alignments_per_tempfile
    /\ pc # "generate" => m_numberOfRuns = NumberOfRunsOfInput
    /\ \A job \in thread_pool :
           /\ job.filename \in 0..(m_numberOfRuns - 1)
           /\ job.buffer = RunOfInput(job.filename)
    /\ \A f \in DOMAIN tempFiles :
           /\ f \in 0..(m_numberOfRuns - 1)
           /\ tempFiles[f] = SortBuffer(RunOfInput(f))
    /\ input = <<>> => (m_numberOfRuns = 0 /\ DOMAIN tempFiles = {})

\* a step that hands out a run hands out the buffer: a full one, followed by
\* a buffer of the record that found it full, or the last, of 1 or more
C20_RunHandedOut ==
    m_numberOfRuns' # m_numberOfRuns =>
        /\ m_numberOfRuns' = m_numberOfRuns + 1
        /\ buffer = RunOfInput(m_numberOfRuns)
        /\ Len(buffer) \in 1..alignments_per_tempfile
        /\ IF pc' = "generate"
           THEN /\ Len(buffer) = alignments_per_tempfile
                /\ buffer' = <<input[read_count']>>
                /\ Head(buffer') = Head(RunOfInput(m_numberOfRuns'))
           ELSE /\ m_numberOfRuns' = NumberOfRunsOfInput
                /\ read_count = Len(input)
        /\ IF nothreads
           THEN m_numberOfRuns \in DOMAIN tempFiles' =>
                    tempFiles'[m_numberOfRuns] = SortBuffer(buffer)
           ELSE [filename |-> m_numberOfRuns, buffer |-> buffer] \in thread_pool'

\* C20: GenerateSortedRuns cuts the input, in arrival order, into consecutive
\* runs: every run but the last holds exactly alignments_per_tempfile
\* records, the last between 1 and that many, none is empty, the record that
\* finds the buffer full is the first of the next run, and an empty input
\* makes no temp file.
C20_RunPartition ==
    /\ []C20_RunsInState
    /\ [][C20_RunHandedOut]_vars

\* C20: three records in runs of two have been written as a file of two and
\* a file of one by the thread pool
C20_Witness ==
    /\ pc = "merge"
    /\ ~nothreads
    /\ Len(input) = 3
    /\ alignments_per_tempfile = 2
    /\ DOMAIN tempFiles = {0, 1}
    /\ Len(tempFiles[0]) = 2
    /\ Len(tempFiles[1]) = 1

\* SORT_DEFAULT_MAX_BUFFER_MEMORY, in Mb
SORT_DEFAULT_MAX_BUFFER_MEMORY == 1024

\* the memory, in Mb, the input record al takes in the buffer: the records
\* of the second query name are as large as the limit, the others half of it
RecordMemory(al) == al.name * (SORT_DEFAULT_MAX_BUFFER_MEMORY \div 2)

\* the memory the records of buf take together
RECURSIVE BufferMemory(_)
BufferMemory(buf) ==
    IF buf = <<>> THEN 0 ELSE RecordMemory(Head(buf)) + BufferMemory(Tail(buf))

\* C21: the buffer is handed out as soon as the records in it reach
\* SORT_DEFAULT_MAX_BUFFER_MEMORY: no record is added to a buffer whose
\* records have reached the limit, whatever their number.
C21_SpilledAtMemoryLimit ==
    \A k \in 1..(Len(buffer) - 1) :
        BufferMemory(SubSeq(buffer, 1, k)) < SORT_DEFAULT_MAX_BUFFER_MEMORY

\* the sequence s is sorted by the comparator of order
SortedBy(order, s) ==
    \A a, b \in 1..Len(s) : a < b => ~Cmp(order, s[b], s[a])

\* C22: MergeSortedRuns starts, and holds a reader on a temp file, only when
\* no job of the thread pool is left: every run handed out has been through
\* WriteTempFile, and every temp file a reader is open on holds all records
\* of its run, sorted by the sort order, whatever order the jobs ended in.
C22_MergeAfterSpills ==
    /\ pc \notin {"generate", "wait"} =>
           /\ thread_pool = {}
           /\ Len(completed) = m_numberOfRuns
    /\ readers # <<>> => thread_pool = {}
    /\ \A i \in 1..Len(readers) :
           LET f == readers[i].file
           IN /\ f \in DOMAIN tempFiles
              /\ Len(tempFiles[f]) = Len(RunOfInput(f))
              /\ Range(tempFiles[f]) = Range(RunOfInput(f))
              /\ SortedBy(sort_order, tempFiles[f])

\* C22: the merge holds readers on three temp files that the jobs of the
\* thread pool finished writing in the reverse of the order they were
\* handed out in
C22_Witness ==
    /\ ~nothreads
    /\ Len(readers) = 3
    /\ completed = <<2, 1, 0>>
    /\ pc = "loop"

\* C23: a temp file that cannot be opened or that ends in the middle of its
\* run is fatal to the sort: MergeSortedRuns does not return with records
\* of the input missing from the output.
C23_MergeReadErrorFatal ==
    pc \in {"return", "done"} =>
        \A i \in 1..Len(input) : input[i] \in Range(output)

\* the nine CIGAR operation codes
CigarKinds == {"M", "I", "D", "N", "S", "H", "P", "=", "X"}

\* the stream holds a whole block length, and it is not 0
HasBlockLength == chunk.lengthBytes = 4 /\ chunk.BlockLength # 0

\* the stream ends inside the core, or inside the character data
ShortRead ==
    /\ HasBlockLength
    /\ \/ chunk.coreBytes < BAM_CORE_SIZE
       \/ /\ chunk.BlockLength >= BAM_CORE_SIZE
          /\ chunk.charBytes < chunk.BlockLength - BAM_CORE_SIZE

\* C24: LoadNextAlignmentInternal returns false, with no record, when no
\* byte of the block length can be read, when the block length is 0 and
\* when the core or the character data is short; the zero length and the
\* short reads are reported, and only the end of file at the block length
\* is a failure without a report.
C24_DecodeFailures ==
    dec_pc = "returned" =>
        /\ (chunk.lengthBytes = 0
              \/ (chunk.lengthBytes = 4 /\ chunk.BlockLength = 0)
              \/ ShortRead)
               => (dec_ret = "false" /\ CigarData = <<>>)
        /\ ((chunk.lengthBytes = 4 /\ chunk.BlockLength = 0) \/ ShortRead)
               => cerr # <<>>
        /\ (dec_ret = "false" /\ cerr = <<>>) => chunk.lengthBytes = 0

\* C26: every CIGAR operation of a record decoded with success has one of
\* the nine kinds and the length word >> 4, and no record is decoded from
\* a stream whose CIGAR holds a word with a code of 9..15.
C26_CigarKinds ==
    (dec_pc = "returned" /\ dec_ret = "true") =>
        /\ \A i \in 1..Len(CigarData) :
               /\ CigarData[i].Type \in CigarKinds
               /\ WordInside(i, dataLength) =>
                      CigarData[i].Length = chunk.words[i] \div Pow2(BAM_CIGAR_SHIFT)
        /\ \A i \in 1..SupportData.NumCigarOperations :
               WordInside(i, dataLength) =>
                   chunk.words[i] % (BAM_CIGAR_MASK + 1) < Cardinality(CigarKinds)

\* C27: a stream whose block length is 1..31 gives no decoded record.
C27_ShortBlockLength ==
    (chunk # <<>> /\ chunk.lengthBytes = 4
       /\ chunk.BlockLength \in 1..(BAM_CORE_SIZE - 1)) => dec_ret # "true"

\* C32: a record that LoadNextAlignmentInternal decodes has every word of
\* its CIGAR inside the dataLength bytes of character data read for it
\* (QueryNameLength + 4 * NumCigarOperations <= dataLength, which is
\* BlockLength - BAM_CORE_SIZE); a record whose fields say otherwise is not
\* decoded.
C32_CigarInsidePayload ==
    dec_ret = "true" =>
        \A i \in 1..SupportData.NumCigarOperations : WordInside(i, dataLength)

\* C17: in the merge loop the element emitted next comes from the run with
\* the lowest index among the run heads whose key equals its key (equal under
\* the operator< of the merge).
C17_MergeTieBreak ==
    (pc = "loop" /\ reads # <<>>) =>
        \A i \in 2..Len(reads) :
            (/\ ~SortedMergeElement_less(Head(reads), reads[i])
             /\ ~SortedMergeElement_less(reads[i], Head(reads)))
                => Head(reads).source < reads[i].source

\* a sort by position is in order when Run() has returned
PositionSortSorted ==
    (pc = "done" /\ sort_order = "SORT_POSITION") =>
        \A i, j \in 1..Len(output) : i < j => ~ByPosition(output[j], output[i])

\* ------------------------------------------------------------------------
\* Properties of the reader
\* ------------------------------------------------------------------------

\* C5: whatever the caller did (open, next, seek, rewind, close) and however
\* the prefetch thread was scheduled, the GetNextAlignment() calls have
\* returned what the calls of a reader without prefetch thread return.
C5_PrefetchTransparent ==
    results = refResults

\* C6: in a run that opened the file once and since then only read and called
\* Seek(Tell()), the GetNextAlignment() calls have returned what they return
\* without the Seek(Tell()) calls.
C6_SeekTellNoOp ==
    history = "tell" => results = refResults

\* C7: no step of the caller outside GetNextAlignment() (Seek, Rewind, Close)
\* changes the stream while a prefetch thread has not ended.
C7_StopIsSynchronous ==
    [][(cpc = "idle" /\ threads' = threads /\ m_stream' # m_stream)
          => \A t \in 1..Len(threads) : threads[t].pc = "exited"]_vars

\* C8: in a run that opened the file once and since then only read, with no
\* region, the i-th GetNextAlignment() returned the i-th alignment of the
\* file, and end-of-stream once the file was used up.
C8_FileOrder ==
    (history = "scan" /\ m_region = NoRegion) =>
        \A i \in 1..Len(results) :
            results[i] = IF i <= Len(file) THEN file[i].id ELSE 0

\* C8: a prefetching reader has returned a whole file of three alignments
\* and then end-of-stream, and its prefetch thread has been in a wait
C8_Witness ==
    /\ history = "scan"
    /\ do_prefetch
    /\ Len(file) = 3
    /\ results = <<1, 2, 3, 0>>
    /\ \E t \in 1..Len(threads) : threads[t].waited

\* C12: after a Rewind() that returned true the region is cleared and the
\* GetNextAlignment() calls since have returned the file's alignments from
\* the first on, in order, none skipped, then end-of-stream.
C12_RewindRestarts ==
    rewindStart >= 0 =>
        /\ m_region = NoRegion
        /\ \A i \in 1..(Len(results) - rewindStart) :
               results[rewindStart + i] = IF i <= Len(file) THEN file[i].id ELSE 0

\* C13: once do_prefetch is cleared, every prefetch thread that was started
\* ends, in whatever state the clearing found it.
C13_WorkerTerminates ==
    \A t \in 1..MaxThreads :
        (t <= Len(threads) /\ ~do_prefetch)
            ~> (t <= Len(threads) /\ threads[t].pc = "exited")

\* a prefetch thread that met the end of the file has pushed one NULL, and
\* nothing is queued behind a NULL
EndSentinelLast ==
    \A i \in 1..Len(prefetch_alignments) :
        prefetch_alignments[i] = NullAlignment => i = Len(prefetch_alignments)

\* C18: a prefetch thread that has just decoded an alignment is not in debt
\* to a wait: since it last entered the high-load wait the queue has been
\* shorter than the depth that wait is left at (100 in prefetch_start), and
\* likewise for the low-load wait (5000).
C18_ThrottleHysteresis ==
    \A t \in 1..Len(threads) :
        threads[t].pc = "push" => threads[t].entered = "none"

\* the error strings "BamReader::<op>: <detail>" of the operation op
ErrorStrings(op) ==
    IF op = "Seek"
    THEN {"BamReader::Seek: cannot seek on unopened BAM file"}
    ELSE IF op = "Rewind"
    THEN {"BamReader::Rewind: could not rewind: \n\tBamReader::Seek: cannot seek on unopened BAM file"}
    ELSE {"BamReader::GetNextAlignment: encountered error reading BAM alignment: \n\t"}

\* a Seek() or Rewind() on a reader that is not open fails with its error
\* string, and the Seek() changes neither the stream nor the prefetching
C25_SeekUnopened ==
    (nseeks' # nseeks /\ ~m_stream.open) =>
        /\ m_errorString' \in ErrorStrings("Seek") \cup ErrorStrings("Rewind")
        /\ m_stream' = m_stream
        /\ m_errorString' \in ErrorStrings("Seek") =>
               /\ do_prefetch' = do_prefetch
               /\ prefetch_alignments' = prefetch_alignments
               /\ threads' = threads

\* a GetNextAlignment() on a reader that is not open fails with its error
\* string
C25_NextUnopened ==
    (Len(results') > Len(results) /\ ~m_stream.open) =>
        /\ results'[Len(results')] = 0
        /\ m_errorString' \in ErrorStrings("GetNextAlignment")

\* C25: every operation of the reader that fails returns failure and leaves
\* m_errorString at "BamReader::<op>: <detail>" of that operation; Seek()
\* on a reader that is not open fails with "BamReader::Seek: cannot seek on
\* unopened BAM file" and changes neither the stream nor the prefetching.
C25_ErrorStringSet ==
    [][C25_SeekUnopened /\ C25_NextUnopened]_vars

\* a step in which Seek() returns true leaves the prefetch thread ended and
\* the prefetch queue empty
C28_SeekDiscards ==
    (nseeks' # nseeks /\ m_stream.open) =>
        /\ prefetch_alignments' = <<>>
        /\ \A t \in 1..Len(threads') : threads'[t].pc = "exited"

\* the calls since the last Seek() that returned true have returned the
\* alignments of the file from the position of the Seek() on
C28_ReadFromSeek ==
    seekAt # NoSeek =>
        \A i \in 1..(Len(results) - seekAt.start) :
            results[seekAt.start + i] =
                IF seekAt.pos + i - 1 <= Len(file)
                THEN file[seekAt.pos + i - 1].id ELSE 0

\* C28: Seek() stops the prefetch thread and discards the prefetch queue:
\* when it has returned the queue is empty, and the GetNextAlignment()
\* calls after it return the alignment at the position sought and those
\* behind it, none that was prefetched before.
C28_SeekStopsAndDiscards ==
    /\ [][C28_SeekDiscards]_vars
    /\ []C28_ReadFromSeek

\* a step in which Seek() returns true or Close() closes the stream leaves
\* no BamAlignment object in the prefetch queue
C29_QueueFreed ==
    (m_stream.open /\ cpc = "idle" /\ (nseeks' # nseeks \/ ~m_stream'.open)) =>
        \A i \in 1..Len(prefetch_alignments') :
            prefetch_alignments'[i] = NullAlignment

\* C29: every BamAlignment object the reader allocates is handed to the
\* caller or deleted: GetNextAlignment() lets go of none (not of one before
\* the region, not of the first after it, not of one whose decoding failed),
\* and none stays in the prefetch queue at a Seek() or Close().
C29_RecordsFreed ==
    /\ []~dropped
    /\ [][C29_QueueFreed]_vars

\* every prefetch thread that was started has left prefetch_start
WorkersExited == \A t \in 1..Len(threads) : threads[t].pc = "exited"

\* the caller polls an empty queue that nothing will fill
PollsForEver ==
    /\ cpc = "next"
    /\ do_prefetch
    /\ prefetch_alignments = <<>>
    /\ WorkersExited

\* C31: every GetNextAlignment() call returns: a caller inside the call
\* (also one made after end-of-stream was returned and the prefetch thread
\* has ended) eventually has its result.
C31_NextReturns == (cpc = "next") ~> (cpc = "idle")

\* C14: the prefetch queue never holds more alignments than the depth at
\* which the low-load wait is entered (20000 in prefetch_start).
C14_QueueBounded ==
    Len(prefetch_alignments) <= LowLoadEnter

\* C15: at most one prefetch thread of the reader has not ended.
C15_OneWorker ==
    Cardinality({t \in 1..Len(threads) : threads[t].pc # "exited"}) <= 1

\* the alignment r lies in the region: the set C9 names
InRegion(r) ==
    /\ r.ref = m_region.ref
    /\ r.pos < m_region.end
    /\ r.pos + r.span > m_region.begin

\* the calls after SetRegion up to the first that returned end-of-stream
UntilEndOfStream ==
    {i \in (regionStart + 1)..Len(results) :
        \A j \in (regionStart + 1)..i : results[j] # 0}

\* a region is set and a GetNextAlignment() since has returned end-of-stream
RegionRead ==
    /\ m_region # NoRegion
    /\ \E i \in (regionStart + 1)..Len(results) : results[i] = 0

\* the file is sorted by coordinate, unmapped alignments last
CoordinateSorted ==
    \A i, j \in 1..Len(file) : i < j => ~ByPosition(file[j], file[i])

\* the alignments GetNextAlignment() call i found consumed: those up to the
\* last one an earlier call returned
ConsumedBefore(i) ==
    LET ids == {results[j] : j \in 1..(i - 1)} \cup {0}
    IN CHOOSE m \in ids : \A k \in ids : k <= m

\* the first alignment behind the first prev of the file that is not
\* classified BeforeRegion, 0 when there is none
FirstNotBefore(prev) ==
    LET later == {k \in (prev + 1)..Len(file) :
                     AlignmentState(file[k]) # "BeforeRegion"}
    IN IF later = {} THEN 0 ELSE CHOOSE k \in later : \A l \in later : k <= l

\* the calls under the region, up to the first that returned end-of-stream,
\* returned the first alignment not before the region, which overlaps it
C19_OverlapsReturned ==
    \A i \in UntilEndOfStream :
        /\ results[i] = FirstNotBefore(ConsumedBefore(i))
        /\ AlignmentState(file[results[i]]) = "OverlapsRegion"

\* the first call under the region that returned end-of-stream met the end
\* of the file or an alignment classified AfterRegion, Before ones skipped
C19_AfterEnds ==
    \A i \in (regionStart + 1)..Len(results) :
        (/\ results[i] = 0
         /\ (i - 1) \in UntilEndOfStream \cup {regionStart}
         /\ m_region.hasAlignments) =>
            LET k == FirstNotBefore(ConsumedBefore(i))
            IN k # 0 => AlignmentState(file[k]) = "AfterRegion"

\* every call after one that returned end-of-stream under the region
\* returned end-of-stream
C19_EndIsLast ==
    \A i, j \in (regionStart + 1)..Len(results) :
        (i < j /\ results[i] = 0) => results[j] = 0

\* C19: with a region set, a GetNextAlignment() call skips the alignments
\* classified BeforeRegion and returns the first classified OverlapsRegion;
\* at the first classified AfterRegion it returns end-of-stream, and so does
\* every later call.
C19_RegionPolicy ==
    m_region # NoRegion =>
        /\ C19_OverlapsReturned
        /\ C19_AfterEnds
        /\ C19_EndIsLast

C16_ExitCodes ==
    cmd_pc = "returned" =>
        /\ cmd_ret = 0 => chainResult = 0
        /\ (command = "localrealign" /\ (vm.reference # 1 \/ input_filenames # 1))
               => (cmd_ret = -1 /\ chainResult = "none")
        /\ (command = "localrealign" /\ chainResult \notin {"none", 0})
               => cmd_ret # 0
        /\ command = "dedup" => cmd_ret = chainResult

\* how often x occurs in the sequence s
Occurrences(s, x) == Cardinality({i \in 1..Len(s) : s[i] = x})

\* C30: dedup connects reader -> split -> k MarkDuplicates -> merge ->
\* writer exactly when threads are enabled, --nosplit is absent and
\* k = min(12, threads / 2) > 1: then there are k MarkDuplicates, each once
\* among the sinks of the split and once among the sources of the merge,
\* all with the removeDuplicates of --remove; otherwise it connects the one
\* chain reader -> mark_duplicates -> writer.
C30_DedupPipeline ==
    (command = "dedup" /\ cmd_pc = "chain") =>
        LET half == numberThreads \div 2
            k == IF half < 12 THEN half ELSE 12
            n == Len(pipeline.removeDuplicates)
        IN IF ~cmd_nothreads /\ vm.nosplit = 0 /\ k > 1
           THEN /\ pipeline.readerSinks = <<"split">>
                /\ pipeline.mergeSinks = <<"writer">>
                /\ n = k
                /\ Len(pipeline.splitSinks) = k
                /\ Len(pipeline.mergeSources) = k
                /\ \A m \in 1..k :
                       /\ Occurrences(pipeline.splitSinks, m) = 1
                       /\ Occurrences(pipeline.mergeSources, m) = 1
                       /\ pipeline.markerSinks[m] = <<"merge">>
                       /\ pipeline.removeDuplicates[m] = (vm.remove # 0)
           ELSE /\ pipeline.readerSinks = <<"mark_duplicates">>
                /\ n = 1
                /\ pipeline.markerSinks = <<<<"writer">>>>
                /\ pipeline.removeDuplicates = <<vm.remove # 0>>
                /\ pipeline.splitSinks = <<>>
                /\ pipeline.mergeSources = <<>>
                /\ pipeline.mergeSinks = <<>>

\* C30: dedup --remove with 30 threads has connected twelve MarkDuplicates
C30_Witness ==
    /\ command = "dedup"
    /\ cmd_pc = "chain"
    /\ numberThreads = 30
    /\ vm.remove = 1
    /\ Len(pipeline.splitSinks) = 12
    /\ duplicate_markers = 12

\* the writer writes to its three files
FileMode ==
    /\ fwd_stream = "fwd_file"
    /\ rev_stream = "rev_file"
    /\ orphan_stream = "orphan_file"

\* how many of the entries es were made from the SaveAlignment call id
EntriesOf(es, id) == Cardinality({i \in 1..Len(es) : es[i].id = id})

\* how many of the alignments saved so far have the name
SavedWithName(name) ==
    Cardinality({i \in 1..Len(saved) : saved[i].Name = name})

\* a name is stored in potential_pairs iff an odd number of alignments with
\* that name have been saved
C33_OddStored ==
    (FileMode /\ fq_pc # "exited") =>
        /\ \A name \in FastqNames :
               (Find(name) # {}) <=> (SavedWithName(name) % 2 = 1)
        /\ \A name \in FastqNames : Cardinality(Find(name)) <= 1

\* the second alignment of a name is written with the stored first one, one
\* of them as the /1 entry on the forward file and the other as the /2 entry
\* on the reverse file, and the name is stored no more
C33_PairWritten ==
    (FileMode /\ closes = 0 /\ Len(saved') = Len(saved) + 1
        /\ Find(saved'[Len(saved')].Name) # {}) =>
        LET name == saved'[Len(saved')].Name
            rec == CHOOSE r \in Find(name) : TRUE
            fwd == fwd_file'.text[Len(fwd_file'.text)]
            rev == rev_file'.text[Len(rev_file'.text)]
        IN /\ Len(fwd_file'.text) = Len(fwd_file.text) + 1
           /\ Len(rev_file'.text) = Len(rev_file.text) + 1
           /\ fwd.name = name /\ fwd.mate = "/1"
           /\ rev.name = name /\ rev.mate = "/2"
           /\ {fwd.id, rev.id} = {rec.id, Len(saved')}
           /\ fwd.id # rev.id
           /\ \A r \in potential_pairs' : r.name # name
           /\ UNCHANGED <<orphan_file, cout>>

\* once Close has returned, every alignment saved before it is written
\* exactly once: on the forward, the reverse or the orphan file
C33_WrittenOnce ==
    (FileMode /\ closes >= 1) =>
        /\ cout = <<>>
        /\ \A id \in 1..savedAtClose :
               EntriesOf(fwd_file.text, id) + EntriesOf(rev_file.text, id)
                   + EntriesOf(orphan_file.text, id) = 1

\* the first Close writes each stored record once to the orphan file, a
\* later one writes nothing
C33_CloseWrites ==
    (FileMode /\ closes' = closes + 1) =>
        /\ UNCHANGED <<fwd_file.text, rev_file.text, cout>>
        /\ orphan_file'.text =
               IF closes = 0 THEN orphan_file.text \o OrphanEntries
               ELSE orphan_file.text
        /\ closes = 0 =>
               \A rec \in potential_pairs :
                   EntriesOf(orphan_file'.text, rec.id) = 1

\* C33: FastqWriter writing to files has written every saved alignment
\* exactly once when Close returns: the second alignment of a name goes out
\* with the stored first one as /1 on the forward and /2 on the reverse
\* file and the name leaves potential_pairs, a name is in potential_pairs
\* iff an odd number of alignments of that name were saved, Close writes
\* each stored record once to the orphan file, and a second Close writes
\* nothing.
C33_EveryRecordOnce ==
    /\ [](C33_OddStored /\ C33_WrittenOnce)
    /\ [][C33_PairWritten /\ C33_CloseWrites]_vars

\* three alignments of one name and one of another saved, then Close twice:
\* one pair on the forward and reverse files and two orphans
C33_Witness ==
    /\ FileMode
    /\ closes = MaxCloses
    /\ savedAtClose = MaxSaved
    /\ SavedWithName(1) = 3
    /\ Len(fwd_file.text) = 1
    /\ Len(rev_file.text) = 1
    /\ Len(orphan_file.text) = 2

====
